---- MODULE Spec2Model ----
(***************************************************************************)
(* Svety greeting-card bot: the Project Record, the Project Store          *)
(* (save / load / list over <DATA_DIR>/<owner>/<id>/meta.json) and the     *)
(* wizard handlers that mutate a record step by step.                      *)
(*                                                                         *)
(* The repository holds two implementations of the bot:                    *)
(*   "legacy" : src/bot.py                                                 *)
(*   "pkg"    : src/svety/bot/main.py (+ src/svety/core/rendering.py)      *)
(* The variable impl says which one runs; the operators below branch on it *)
(* wherever the two differ.                                                *)
(***************************************************************************)
EXTENDS Integers, Sequences, FiniteSets, TLC

VARIABLES
    impl,       \* which implementation runs: "legacy" | "pkg"
    uid,        \* update.effective_user.id of the conversation that is followed
    Domain,     \* configuration: the DOMAIN environment variable (a text)
    fs,         \* the data directory: fs[owner][id] is one project directory
    now,        \* the clock read by time.time() and by the file system
    state,      \* state[u]: the ConversationHandler state of user u
    pid,        \* pid[u]: context.user_data["pid"] of user u
    mem,        \* mem[u]: the record object last mutated by a handler of u
    outcome,    \* how the last handler ended (see Result)
    wr,         \* the save_project call in progress, or None (SpecStore)
    ret,        \* the last load_project or list_projects call and what it
                \* returned, or None (SpecStore)
    job,        \* the text, font and alignment the text block is called
                \* with (SpecLayout)
    calls       \* the last two calls of the text block: their rectangles,
                \* the lines they wrapped and what they drew (SpecLayout)

vars ==
    <<impl, uid, Domain, fs, now, state, pid, mem, outcome, wr, ret, job, calls>>

\* what the wizard leaves alone
store_vars == <<wr, ret>>
render_vars == <<job, calls>>
config_vars == <<impl, uid, Domain>>

-----------------------------------------------------------------------------
(* Bounds of the model *)

\* the clock stops here: every save, and every file a handler creates, takes
\* one tick
MaxClock == 5

\* buttons, photos, QR links and the renders they ask for are followed while
\* the clock is below this; the three text steps are followed up to MaxClock,
\* so that a whole pass new -> title -> subtitle -> body -> preview fits
MaxEditClock == 4

\* the clock of SpecStore stops here: three saves fit (create, create, and a
\* second save of the older project)
MaxStoreClock == 4

\* the largest limit list_projects is called with (the bot itself passes 8)
MaxLimit == 2

\* Telegram users (owners) and the values uuid4().hex[:10] may take
Owners == {1, 2}
Ids == {"a", "b"}

-----------------------------------------------------------------------------
(* Texts are sequences of one-character strings *)

HTTP == <<"h", "t", "t", "p", ":", "/", "/">>
HTTPS == <<"h", "t", "t", "p", "s", ":", "/", "/">>
WHITESPACE == {" "}

startswith(s, prefix) ==
    /\ Len(s) >= Len(prefix)
    /\ SubSeq(s, 1, Len(prefix)) = prefix

RECURSIVE lstrip(_)
lstrip(s) ==
    IF s # <<>> /\ Head(s) \in WHITESPACE THEN lstrip(Tail(s)) ELSE s

RECURSIVE rstrip(_)
rstrip(s) ==
    IF s # <<>> /\ s[Len(s)] \in WHITESPACE
    THEN rstrip(SubSeq(s, 1, Len(s) - 1))
    ELSE s

strip(s) == rstrip(lstrip(s))

-----------------------------------------------------------------------------
(* FSM states (range(10) in the source), and "END" for no conversation *)

MENU == "MENU"
CHOOSE_TPL == "CHOOSE_TPL"
SET_BG == "SET_BG"
SET_TITLE == "SET_TITLE"
SET_SUBTITLE == "SET_SUBTITLE"
SET_BODY == "SET_BODY"
SET_STYLE == "SET_STYLE"
SET_QR == "SET_QR"
PREVIEW == "PREVIEW"
PROJECTS == "PROJECTS"
END == "END"

\* the states whose handler list holds CallbackQueryHandler(on_cb)
CallbackStates == {MENU, CHOOSE_TPL, SET_BG, SET_STYLE, SET_QR, PREVIEW, PROJECTS}

-----------------------------------------------------------------------------
(* The Project Record *)

\* Values that stand beside records (records themselves, so that TLC can
\* compare them with a Project Record)
None == [tag |-> "None"]
Raised == [tag |-> "Raised"]
Absent == [tag |-> "Absent"]      \* no meta.json in the directory
Partial == [tag |-> "Partial"]    \* a meta.json that json.loads cannot parse

\* bg_image = None
NoPath == <<>>

QR_MIN == 120
QR_MAX == 400
QR_DEFAULT == 220

BgPath(u, i) == <<u, i, "bg.jpg">>

DefaultFont ==
    IF impl = "legacy" THEN "DejaVuSans.ttf"
    ELSE "/usr/share/fonts/truetype/dejavu/DejaVuSans.ttf"

\* the fields of a new project
project_defaults(user_id, i, t) ==
    [ id |-> i,
      user_id |-> user_id,
      template |-> "classic",
      bg_mode |-> "color",
      bg_color |-> "#ffffff",
      bg_image |-> NoPath,
      title |-> <<>>,
      subtitle |-> <<>>,
      body |-> <<>>,
      font_name |-> DefaultFont,
      font_color |-> "#111111",
      align |-> "center",
      qr_enabled |-> FALSE,
      qr_url |-> IF Domain # <<>> THEN HTTPS \o Domain \o <<"/", "p", "/", i>> ELSE <<>>,
      qr_pos |-> "br",
      qr_size |-> QR_DEFAULT,
      updated_at |-> t ]

\* a new_project that takes the owner from somewhere else than the update
new_project_other_owner(user_id, i, t) ==
    project_defaults(CHOOSE o \in Owners : o # user_id, i, t)

\* the record new_project builds for the user of the update, before it is
\* saved; i is the value of uuid.uuid4().hex[:10]
new_project(user_id, i, t) == project_defaults(user_id, i, t)

IsRecord(m) == m \notin {Absent, Partial}

\* the fields of the Project dataclass; id and user_id have no default
Fields ==
    { "id", "user_id", "template", "bg_mode", "bg_color", "bg_image", "title",
      "subtitle", "body", "font_name", "font_color", "align", "qr_enabled",
      "qr_url", "qr_pos", "qr_size", "updated_at" }

RequiredFields == {"id", "user_id"}

\* the defaults of the Project dataclass (updated_at: time.time())
FieldDefaults ==
    [ template |-> "classic", bg_mode |-> "color", bg_color |-> "#ffffff",
      bg_image |-> NoPath, title |-> <<>>, subtitle |-> <<>>, body |-> <<>>,
      font_name |-> "DejaVuSans.ttf", font_color |-> "#111111",
      align |-> "center", qr_enabled |-> FALSE, qr_url |-> <<>>,
      qr_pos |-> "br", qr_size |-> QR_DEFAULT, updated_at |-> now ]

\* Project.from_dict(d) == Project(**d): a key that is no field, or a missing
\* id or user_id, raises TypeError; other missing fields take their defaults
from_dict(d) ==
    IF DOMAIN d = Fields THEN d
    ELSE IF ~(DOMAIN d \subseteq Fields) \/ ~(RequiredFields \subseteq DOMAIN d)
    THEN Raised
    ELSE [k \in Fields |-> IF k \in DOMAIN d THEN d[k] ELSE FieldDefaults[k]]

\* what the program makes of the parsed content d of a meta.json: the legacy
\* bot a Project, the package the dict as it is
loaded(d) == IF impl = "legacy" THEN from_dict(d) ELSE d

-----------------------------------------------------------------------------
(* The file system under DATA_DIR *)

\* no preview.jpg / final.jpg in the directory: an artifact file holds the
\* layers of its image, of which there is at least the fill
NoFile == <<>>

\* preview and final hold the image that preview.jpg / final.jpg contains
NoDir == [exists |-> FALSE, meta |-> Absent, mtime |-> 0,
          preview |-> NoFile, final |-> NoFile, bg |-> FALSE]

\* Path.mkdir(parents=True, exist_ok=True) of <DATA_DIR>/<u>/<i>
mkdir(f, u, i, t) ==
    IF f[u][i].exists THEN f
    ELSE [f EXCEPT ![u][i] = [NoDir EXCEPT !.exists = TRUE, !.mtime = t]]

\* Path.write_text, first half: open(meta.json, "w") creates the file or
\* truncates it; creating it touches the directory
open_meta(f, u, i, t) ==
    [f EXCEPT ![u][i].meta = Partial,
              ![u][i].mtime = IF f[u][i].meta = Absent THEN t ELSE @]

\* Path.write_text, second half: the text is written and the file closed
put_meta(f, u, i, content) ==
    [f EXCEPT ![u][i].meta = content]

\* Path.write_text of meta.json as a whole
write_meta(f, u, i, content, t) ==
    put_meta(open_meta(f, u, i, t), u, i, content)

(* meta.json holds json.dumps(record); the model keeps in `meta` what        *)
(* json.loads makes of the text that was written.                           *)

\* the characters json.dumps writes with a backslash before them
JSON_ESCAPED == {"\"", "\\"}

\* json.dumps of a text without the backslashes (a broken encoder)
RECURSIVE json_escape_none(_)
json_escape_none(s) ==
    IF s = <<>> THEN <<>> ELSE <<Head(s)>> \o json_escape_none(Tail(s))

\* json.dumps of a text, between the quotes
RECURSIVE json_escape(_)
json_escape(s) ==
    IF s = <<>> THEN <<>>
    ELSE (IF Head(s) \in JSON_ESCAPED THEN <<"\\", Head(s)>> ELSE <<Head(s)>>)
         \o json_escape(Tail(s))

\* json.loads of a string literal, between the quotes
RECURSIVE json_unescape(_)
json_unescape(s) ==
    IF s = <<>> THEN <<>>
    ELSE IF Head(s) = "\\" /\ Len(s) >= 2
         THEN <<s[2]>> \o json_unescape(Tail(Tail(s)))
         ELSE <<Head(s)>> \o json_unescape(Tail(s))

\* None is written as null
JsonNull == <<"null">>

\* json.dumps(p.to_dict()): the texts escaped, None as null
json_dumps(p) ==
    [p EXCEPT !.title = json_escape(@),
              !.subtitle = json_escape(@),
              !.body = json_escape(@),
              !.qr_url = json_escape(@),
              !.bg_image = IF @ = NoPath THEN JsonNull ELSE @]

\* json.loads(text), and Project.from_dict of it in the legacy bot
json_loads(d) ==
    [d EXCEPT !.title = json_unescape(@),
              !.subtitle = json_unescape(@),
              !.body = json_unescape(@),
              !.qr_url = json_unescape(@),
              !.bg_image = IF @ = JsonNull THEN NoPath ELSE @]

\* a save_project that makes the directories and leaves meta.json unwritten
save_project_unwritten(f, p, t) == mkdir(f, p.user_id, p.id, t)

\* a save_project that writes the record with the updated_at it came with
save_project_stale(f, p, t) ==
    write_meta(mkdir(f, p.user_id, p.id, t), p.user_id, p.id,
               json_loads(json_dumps(p)), t)

\* save_project: refresh updated_at, make the directories, write meta.json.
\* Returns the file system after the save.
save_project(f, p, t) ==
    LET q == [p EXCEPT !.updated_at = t]
    IN  write_meta(mkdir(f, q.user_id, q.id, t), q.user_id, q.id,
                   json_loads(json_dumps(q)), t)

\* the record object after save_project has refreshed it
saved(p, t) == [p EXCEPT !.updated_at = t]

\* the file system after load_project: the package's _meta_path makes the
\* project directory, the legacy code touches nothing
load_fs(f, u, i, t) ==
    IF impl = "pkg" THEN mkdir(f, u, i, t) ELSE f

\* load_project: None when there is no meta.json; on unparseable content the
\* package returns None and the legacy code lets json.loads raise
load_project(f, u, i) ==
    LET m == f[u][i].meta
    IN  IF ~f[u][i].exists \/ m = Absent THEN None
        ELSE IF m = Partial THEN (IF impl = "pkg" THEN None ELSE Raised)
        ELSE loaded(m)

NoPid == "NoPid"

\* get_current_project / get_proj
get_current_project(u) ==
    IF pid[u] = NoPid THEN None ELSE load_project(fs, u, pid[u])

\* the file system a handler sees after it looked its project up
fs_loaded(u) ==
    IF pid[u] = NoPid THEN fs ELSE load_fs(fs, u, pid[u], now)

-----------------------------------------------------------------------------
(* Handler outcomes *)

\* outcome = [user |-> u, result |-> r]: the handler that ran last, for user u,
\* ended with r:
\*   "ok"         it returned its normal next state
\*   "noproject"  it found no usable current project and returned MENU
\*   "raised"     it raised; the ConversationHandler keeps the old state
\*   "rejected"   set_qr_text refused the text as a URL
\*   "toolarge"   on_photo refused the photo for its size
\*   "wrongstep"  on_photo decided that the wizard is not at the background step
Result(u, r) == [user |-> u, result |-> r]

\* the handler of u returns the conversation state `next`
Return(u, next, r) ==
    /\ state' = [state EXCEPT ![u] = next]
    /\ outcome' = Result(u, r)

\* the handler of u raises: PTB keeps the conversation state
Raise(u) ==
    /\ state' = state
    /\ outcome' = Result(u, "raised")

\* A handler of user u that found no usable project: it answers and returns MENU.
\* (In the legacy code a corrupt meta.json makes the handler raise instead.)
NoProject(u) ==
    /\ fs' = fs_loaded(u)
    /\ IF get_current_project(u) = Raised
       THEN Raise(u)
       ELSE Return(u, MENU, "noproject")
    /\ UNCHANGED <<config_vars, store_vars, render_vars, now, pid, mem>>

HasProject(u) == get_current_project(u) \notin {None, Raised}

\* The package answers the bg, bgcolor, align, fcolor, qr, qrpos and qrsize
\* callbacks with `await q.message.reply_markup(reply_markup=...)`; in
\* python-telegram-bot Message.reply_markup is an attribute, not a method, so
\* the call raises TypeError after the record was saved. The legacy code calls
\* q.edit_message_reply_markup, which exists.
ReplyMarkupRaises == impl = "pkg"

\* Both bots render through render_async, which hands `final` to
\* render_image as a second positional argument
\* (run_in_executor(None, render_image, p, final)); render_image takes
\* `final` by keyword only, so the call raises TypeError in the worker before
\* anything is drawn or written, and the await raises it in the handler:
\* the handler never reaches its reply_photo and its `return PREVIEW`.
RenderRaises == impl \in {"legacy", "pkg"}

\* the bound on button, photo and link edits
EditsOpen == now < MaxEditClock

\* A handler of user u that changed its loaded record to q, saved it and
\* answered. replyRaises: the answer raises after the save.
MutateAndSaveOn(f, u, q, next, replyRaises) ==
    /\ now < MaxClock
    /\ fs' = save_project(f, q, now)
    /\ now' = now + 1
    /\ mem' = [mem EXCEPT ![u] = saved(q, now)]
    /\ IF replyRaises THEN Raise(u) ELSE Return(u, next, "ok")
    /\ UNCHANGED <<config_vars, store_vars, render_vars, pid>>

MutateAndSave(u, q, next, replyRaises) ==
    MutateAndSaveOn(fs_loaded(u), u, q, next, replyRaises)

\* the same for a button, a photo or a link
Edit(u, q, next, replyRaises) ==
    /\ EditsOpen
    /\ MutateAndSave(u, q, next, replyRaises)

-----------------------------------------------------------------------------
(* Rendering, as far as the file system sees it *)

HasArtifact(f, u, i, final) ==
    (IF final THEN f[u][i].final ELSE f[u][i].preview) # NoFile

\* an img.save that leaves a file that is there as it is
save_image_keeps_first(f, u, i, final, image, t) ==
    IF HasArtifact(f, u, i, final) THEN f
    ELSE IF final
    THEN [f EXCEPT ![u][i].final = image, ![u][i].mtime = t]
    ELSE [f EXCEPT ![u][i].preview = image, ![u][i].mtime = t]

\* an img.save that removes the artifact of the other kind
save_image_drops_other(f, u, i, final, image, t) ==
    IF final
    THEN [f EXCEPT ![u][i].final = image, ![u][i].preview = NoFile]
    ELSE [f EXCEPT ![u][i].preview = image, ![u][i].final = NoFile]

\* img.save(out, quality=90): final.jpg or preview.jpg of the project
\* directory now holds the image, whatever it held; a new file touches the
\* directory
save_image(f, u, i, final, image, t) ==
    LET fresh == ~HasArtifact(f, u, i, final)
    IN  IF final
        THEN [f EXCEPT ![u][i].final = image,
                       ![u][i].mtime = IF fresh THEN t ELSE @]
        ELSE [f EXCEPT ![u][i].preview = image,
                       ![u][i].mtime = IF fresh THEN t ELSE @]

-----------------------------------------------------------------------------
(* Commands: entry points (allow_reentry) and the fallback *)

cmd_start(u) ==
    /\ Return(u, MENU, "ok")
    /\ UNCHANGED <<config_vars, store_vars, render_vars, fs, now, pid, mem>>

cmd_cancel(u) ==
    /\ state[u] # END
    /\ Return(u, END, "ok")
    /\ UNCHANGED <<config_vars, store_vars, render_vars, fs, now, pid, mem>>

-----------------------------------------------------------------------------
(* on_cb, one action per callback action. The values are those of the     *)
(* keyboards, and a few that only a forged callback could carry.          *)

TplIds == {"minimal"}
BgModes == {"color", "image", "gradient"}
BgColors == {"#fff7e6"}
Aligns == {"left"}
FontColors == {"#ffffff"}
QrPositions == {"tl", "zz"}
QrDeltas == {-40, 40, -1000, 1000}
ToTargets == {"SET_BG", "SET_TITLE", "SET_STYLE", "SET_QR", "PREVIEW", ""}
BackTargets == {"menu", "tpl", "style", "text"}

\* a:new  (legacy: new_project, then set_current_project saves;
\*         package: new_project saves, then user_data["pid"] is set)
cb_new(u) ==
    /\ state[u] \in CallbackStates
    /\ EditsOpen
    /\ \E i \in Ids :
          LET p == new_project(u, i, now)
          IN  /\ fs' = save_project(fs, p, now)
              /\ pid' = [pid EXCEPT ![u] = i]
              /\ mem' = [mem EXCEPT ![u] = saved(p, now)]
    /\ now' = now + 1
    /\ Return(u, CHOOSE_TPL, "created")
    /\ UNCHANGED <<config_vars, store_vars, render_vars>>

\* a tpl branch that also puts the background colour back to the default
cb_tpl_resets_colour(u) ==
    /\ state[u] \in CallbackStates
    /\ LET p == get_current_project(u)
       IN  IF ~HasProject(u) THEN NoProject(u)
           ELSE \E id \in TplIds :
                   Edit(u, [p EXCEPT !.template = id, !.bg_color = "#ffffff"],
                        SET_BG, FALSE)

\* a:tpl|id=...
cb_tpl(u) ==
    /\ state[u] \in CallbackStates
    /\ LET p == get_current_project(u)
       IN  IF ~HasProject(u) THEN NoProject(u)
           ELSE \E id \in TplIds :
                   Edit(u, [p EXCEPT !.template = id], SET_BG, FALSE)

\* a bg branch that stores the mode and leaves bg_image as it is
cb_bg_keeps_image(u) ==
    /\ state[u] \in CallbackStates
    /\ LET p == get_current_project(u)
       IN  IF ~HasProject(u) THEN NoProject(u)
           ELSE \E mode \in BgModes :
                   Edit(u, [p EXCEPT !.bg_mode = mode], SET_BG, ReplyMarkupRaises)

\* a:bg|mode=...
cb_bg(u) ==
    /\ state[u] \in CallbackStates
    /\ LET p == get_current_project(u)
       IN  IF ~HasProject(u) THEN NoProject(u)
           ELSE \E mode \in BgModes :
                   Edit(u,
                       [p EXCEPT !.bg_mode = mode,
                                 !.bg_image = IF mode = "color" THEN NoPath ELSE @],
                       SET_BG, ReplyMarkupRaises)

\* a:bgcolor|c=...
cb_bgcolor(u) ==
    /\ state[u] \in CallbackStates
    /\ LET p == get_current_project(u)
       IN  IF ~HasProject(u) THEN NoProject(u)
           ELSE \E c \in BgColors :
                   Edit(u, [p EXCEPT !.bg_color = c], SET_BG, ReplyMarkupRaises)

\* a:align|v=...
cb_align(u) ==
    /\ state[u] \in CallbackStates
    /\ LET p == get_current_project(u)
       IN  IF ~HasProject(u) THEN NoProject(u)
           ELSE \E v \in Aligns :
                   Edit(u, [p EXCEPT !.align = v], SET_STYLE, ReplyMarkupRaises)

\* a:fcolor|c=...
cb_fcolor(u) ==
    /\ state[u] \in CallbackStates
    /\ LET p == get_current_project(u)
       IN  IF ~HasProject(u) THEN NoProject(u)
           ELSE \E c \in FontColors :
                   Edit(u, [p EXCEPT !.font_color = c], SET_STYLE, ReplyMarkupRaises)

\* a:qr|enable=...
cb_qr(u) ==
    /\ state[u] \in CallbackStates
    /\ LET p == get_current_project(u)
       IN  IF ~HasProject(u) THEN NoProject(u)
           ELSE \E enable \in BOOLEAN :
                   Edit(u, [p EXCEPT !.qr_enabled = enable], SET_QR, ReplyMarkupRaises)

\* a:qrpos|p=...
cb_qrpos(u) ==
    /\ state[u] \in CallbackStates
    /\ LET p == get_current_project(u)
       IN  IF ~HasProject(u) THEN NoProject(u)
           ELSE \E pos \in QrPositions :
                   Edit(u, [p EXCEPT !.qr_pos = pos], SET_QR, ReplyMarkupRaises)

max(a, b) == IF a >= b THEN a ELSE b
min(a, b) == IF a <= b THEN a ELSE b

\* max(120, min(400, qr_size + delta))
\* the bounds the renderer uses (120..600) in place of the wizard's
clamp_qr_size_render_bounds(size, delta) == max(QR_MIN, min(600, size + delta))

clamp_qr_size(size, delta) == max(QR_MIN, min(QR_MAX, size + delta))

\* a:qrsize|d=...
cb_qrsize(u) ==
    /\ state[u] \in CallbackStates
    /\ LET p == get_current_project(u)
       IN  IF ~HasProject(u) THEN NoProject(u)
           ELSE \E delta \in QrDeltas :
                   Edit(u,
                       [p EXCEPT !.qr_size = clamp_qr_size(p.qr_size, delta)],
                       SET_QR, ReplyMarkupRaises)

\* a:to|s=... for one target s
go_to(u, s) ==
    /\ state[u] \in CallbackStates
    /\ CASE s \in {"SET_BG", "SET_TITLE", "SET_STYLE"} ->
               /\ Return(u, s, "ok")
               /\ UNCHANGED <<config_vars, store_vars, render_vars, fs, now, pid, mem>>
         [] s = "SET_QR" ->
               IF ~HasProject(u) THEN NoProject(u)
               ELSE /\ fs' = fs_loaded(u)
                    /\ Return(u, SET_QR, "ok")
                    /\ UNCHANGED <<config_vars, store_vars, render_vars, now, pid, mem>>
         [] s = "PREVIEW" ->
               IF ~HasProject(u) THEN NoProject(u)
               ELSE /\ RenderRaises
                    /\ fs' = fs_loaded(u)
                    /\ Raise(u)
                    /\ UNCHANGED <<config_vars, store_vars, render_vars, now, pid, mem>>
         [] OTHER ->
               /\ Return(u, MENU, "ok")
               /\ UNCHANGED <<config_vars, store_vars, render_vars, fs, now, pid, mem>>

\* a:to|s=...
cb_to(u) == \E s \in ToTargets : go_to(u, s)

\* a:back|to=...
cb_back(u) ==
    /\ state[u] \in CallbackStates
    /\ \E to \in BackTargets :
          Return(u, CASE to = "menu" -> MENU
                      [] to = "tpl" -> CHOOSE_TPL
                      [] to = "style" -> SET_STYLE
                      [] to = "text" -> SET_TITLE
                      [] OTHER -> MENU, "ok")
    /\ UNCHANGED <<config_vars, store_vars, render_vars, fs, now, pid, mem>>

\* a:save|id=...
cb_save(u) ==
    /\ state[u] \in CallbackStates
    /\ IF ~HasProject(u) THEN NoProject(u)
       ELSE /\ RenderRaises
            /\ fs' = fs_loaded(u)
            /\ Raise(u)
            /\ UNCHANGED <<config_vars, store_vars, render_vars, now, pid, mem>>

\* a:list, a:settings and any other action: an answer and MENU
cb_other(u) ==
    /\ state[u] \in CallbackStates
    /\ Return(u, MENU, "ok")
    /\ UNCHANGED <<config_vars, store_vars, render_vars, fs, now, pid, mem>>

-----------------------------------------------------------------------------
(* Message handlers *)

\* what a user may type (Telegram delivers no empty text)
Texts == { <<"a">>, <<" ", "b", " ">>, <<"-">> }

\* what a user may send at the QR step
UrlTexts == { HTTP,
              HTTPS \o <<"x">>,
              <<" ">> \o HTTP \o <<"x">>,
              <<"f", "t", "p", ":", "/", "/", "x">>,
              <<"x">> }

set_title(u) ==
    /\ state[u] = SET_TITLE
    /\ LET p == get_current_project(u)
       IN  IF ~HasProject(u) THEN NoProject(u)
           ELSE \E text \in Texts :
                   MutateAndSave(u, [p EXCEPT !.title = strip(text)], SET_SUBTITLE, FALSE)

set_subtitle(u) ==
    /\ state[u] = SET_SUBTITLE
    /\ LET p == get_current_project(u)
       IN  IF ~HasProject(u) THEN NoProject(u)
           ELSE \E text \in Texts :
                   LET txt == strip(text)
                   IN  MutateAndSave(u,
                           [p EXCEPT !.subtitle = IF txt = <<"-">> THEN <<>> ELSE txt],
                           SET_BODY, FALSE)

\* set_body saves, then renders the preview (into the directory the save has
\* just touched: the handler takes one tick); the render raises after the
\* save
set_body(u) ==
    /\ state[u] = SET_BODY
    /\ LET p == get_current_project(u)
       IN  IF ~HasProject(u) THEN NoProject(u)
           ELSE \E text \in Texts :
                   LET q == [p EXCEPT !.body = strip(text)]
                       f1 == save_project(fs_loaded(u), q, now)
                   IN  /\ now < MaxClock
                       /\ RenderRaises
                       /\ fs' = f1
                       /\ now' = now + 1
                       /\ mem' = [mem EXCEPT ![u] = saved(q, now)]
                       /\ Raise(u)
                       /\ UNCHANGED <<config_vars, store_vars, render_vars, pid>>

\* the URL validator of set_qr_text
url_accepted(url) == startswith(url, HTTP) \/ startswith(url, HTTPS)

\* a set_qr_text that stores the text first and validates it afterwards
reject_url_after_save(u, p, url) ==
    /\ now < MaxClock
    /\ fs' = save_project(fs_loaded(u), [p EXCEPT !.qr_url = url], now)
    /\ now' = now + 1
    /\ mem' = [mem EXCEPT ![u] = saved([p EXCEPT !.qr_url = url], now)]
    /\ Return(u, SET_QR, "rejected")
    /\ UNCHANGED <<config_vars, store_vars, render_vars, pid>>

\* set_qr_text on a text the validator refuses: an answer, and SET_QR again
reject_url(u, p, url) ==
    /\ fs' = fs_loaded(u)
    /\ Return(u, SET_QR, "rejected")
    /\ UNCHANGED <<config_vars, store_vars, render_vars, now, pid, mem>>

set_qr_text(u) ==
    /\ state[u] = SET_QR
    /\ LET p == get_current_project(u)
       IN  IF ~HasProject(u) THEN NoProject(u)
           ELSE \E text \in UrlTexts :
                   LET url == strip(text)
                   IN  IF ~url_accepted(url)
                       THEN reject_url(u, p, url)
                       ELSE Edit(u,
                                [p EXCEPT !.qr_url = url, !.qr_enabled = TRUE],
                                SET_QR, FALSE)

MAX_UPLOAD_MB == 10
UploadLimit == MAX_UPLOAD_MB * 1024 * 1024

\* photo.file_size; 0 stands for a photo without a size (None)
PhotoSizes == {0, UploadLimit, UploadLimit + 1}

\* the file system after tgfile.download_to_drive(<project dir>/bg.jpg)
download_bg(f, u, i, t) ==
    [f EXCEPT ![u][i].bg = TRUE,
              ![u][i].mtime = IF f[u][i].bg THEN @ ELSE t]

\* on_photo for a photo of the given size. context.user_data["state"] is
\* never written by either program, so user_data.get("state") is None: the legacy test `not in (SET_BG,)` then
\* always sends the photo away (and returns user_data.get("state", MENU)),
\* while the package's `not in (SET_BG, None)` lets it through.
photo(u, size) ==
    /\ state[u] = SET_BG
    /\ LET p == get_current_project(u)
       IN  IF ~HasProject(u) THEN NoProject(u)
           ELSE IF impl = "legacy"
           THEN /\ fs' = fs_loaded(u)
                /\ Return(u, MENU, "wrongstep")
                /\ UNCHANGED <<config_vars, store_vars, render_vars, now, pid, mem>>
           ELSE IF size # 0 /\ size > UploadLimit
           THEN /\ fs' = fs_loaded(u)
                /\ Return(u, SET_BG, "toolarge")
                /\ UNCHANGED <<config_vars, store_vars, render_vars, now, pid, mem>>
           ELSE LET f1 == download_bg(mkdir(fs_loaded(u), u, pid[u], now), u, pid[u], now)
                    q == [p EXCEPT !.bg_mode = "image",
                                   !.bg_image = BgPath(u, pid[u])]
                IN  /\ EditsOpen
                    /\ MutateAndSaveOn(f1, u, q, SET_BG, FALSE)

\* a photo of any size arrives
on_photo(u) == \E size \in PhotoSizes : photo(u, size)

-----------------------------------------------------------------------------

(* list_projects *)

\* the sequences that hold each element of S once
Perms(S) ==
    { q \in [1..Cardinality(S) -> S] :
        \A a, b \in 1..Cardinality(S) : a # b => q[a] # q[b] }

\* sorted(base.iterdir(), key=st_mtime, reverse=True) over the project
\* directories d of one owner: newest directory first. (Directories with equal
\* mtime keep the order of iterdir, which is any order.)
sorted_children(d) ==
    CHOOSE q \in Perms({i \in DOMAIN d : d[i].exists}) :
        \A a, b \in 1..Len(q) : a < b => d[q[a]].mtime >= d[q[b]].mtime

\* the loop of list_projects over the children that are left
RECURSIVE scan(_, _, _, _)
scan(d, order, items, limit) ==
    IF order = <<>> THEN items
    ELSE LET m == d[Head(order)].meta
         IN  IF m = Absent
             THEN \* no meta.json: only the test of the limit runs
                  IF Len(items) >= limit THEN items
                  ELSE scan(d, Tail(order), items, limit)
             ELSE IF m = Partial \/ loaded(m) = Raised
             THEN \* json.loads or from_dict raises: `continue`, past the test
                  \* of the limit
                  scan(d, Tail(order), items, limit)
             ELSE IF Len(Append(items, loaded(m))) >= limit
                  THEN Append(items, loaded(m))
                  ELSE scan(d, Tail(order), Append(items, loaded(m)), limit)

list_dirs(d, limit) == scan(d, sorted_children(d), <<>>, limit)

list_projects(f, user_id, limit) == list_dirs(f[user_id], limit)

-----------------------------------------------------------------------------
(* The Project Store under concurrent use: SpecStore.                      *)
(* save_project runs in two steps, as Path.write_text does (open, which    *)
(* truncates; then write and close), and other callers, of this process or *)
(* of a second one on the same DATA_DIR, load and list in between.         *)

\* save_project up to the open of meta.json
save_begin(p) ==
    /\ now < MaxStoreClock
    /\ fs' = open_meta(mkdir(fs, p.user_id, p.id, now), p.user_id, p.id, now)
    /\ wr' = [rec |-> saved(p, now), old |-> fs[p.user_id][p.id].meta]
    /\ now' = now + 1
    /\ ret' = None
    /\ UNCHANGED <<config_vars, state, pid, mem, outcome, render_vars>>

\* create: new_project and its save
store_create(u) ==
    /\ wr = None
    /\ \E i \in Ids : save_begin(new_project(u, i, now))

\* the titles the saved records carry: with and without characters that
\* json.dumps escapes
StoreTitles == { <<>>, <<"a", "\\", "\"">> }

\* a save of a record that was loaded before, with some title
store_save(u, i) ==
    /\ wr = None
    /\ load_project(fs, u, i) \notin {None, Raised}
    /\ \E title \in StoreTitles :
          save_begin([load_project(fs, u, i) EXCEPT !.title = title])

\* meta.json files that this version of the program did not write: one
\* without the field qr_size, one with a field the program does not know
ForeignRecords(u, i, t) ==
    { [k \in Fields \ {"qr_size"} |-> project_defaults(u, i, t)[k]],
      [k \in Fields \cup {"note"} |->
          IF k = "note" THEN "x" ELSE project_defaults(u, i, t)[k]] }

\* such a file appears in the store (written by another version, or by hand);
\* SpecStore lets it appear among the projects of the user uid
store_foreign(u, i) ==
    /\ wr = None
    /\ now < MaxStoreClock
    /\ \E d \in ForeignRecords(u, i, now) :
          fs' = write_meta(mkdir(fs, u, i, now), u, i, d, now)
    /\ now' = now + 1
    /\ ret' = None
    /\ UNCHANGED <<config_vars, wr, state, pid, mem, outcome, render_vars>>

\* save_project from the write to the end
store_write ==
    /\ wr # None
    /\ fs' = put_meta(fs, wr.rec.user_id, wr.rec.id,
                      json_loads(json_dumps(wr.rec)))
    /\ wr' = None
    /\ ret' = None
    /\ UNCHANGED <<config_vars, now, state, pid, mem, outcome, render_vars>>

\* the saving process dies between the open and the write
store_crash ==
    /\ wr # None
    /\ wr' = None
    /\ ret' = None
    /\ UNCHANGED <<config_vars, fs, now, state, pid, mem, outcome, render_vars>>

\* load_project(u, i), at any moment
store_load(u, i) ==
    /\ fs[u][i].exists \/ impl = "legacy" \/ now < MaxStoreClock
    /\ ret' = [op |-> "load", user |-> u, id |-> i,
               val |-> load_project(fs, u, i),
               content |-> fs[u][i].meta,
               racing |-> wr # None /\ wr.rec.user_id = u /\ wr.rec.id = i,
               old |-> IF wr # None THEN wr.old ELSE None,
               new |-> IF wr # None THEN wr.rec ELSE None]
    /\ fs' = load_fs(fs, u, i, now)
    /\ now' = IF load_fs(fs, u, i, now) # fs THEN now + 1 ELSE now
    /\ UNCHANGED <<config_vars, wr, state, pid, mem, outcome, render_vars>>

\* list_projects(u, limit), at any moment
store_list(u, limit) ==
    /\ ret' = [op |-> "list", user |-> u, limit |-> limit,
               items |-> list_projects(fs, u, limit),
               dirs |-> fs[u]]
    /\ UNCHANGED <<config_vars, fs, now, wr, state, pid, mem, outcome, render_vars>>

InitStore ==
    /\ impl \in {"legacy", "pkg"}
    /\ uid = 1
    /\ Domain = <<>>
    /\ fs = [u \in Owners |-> [i \in Ids |-> NoDir]]
    /\ now = 1
    /\ state = [u \in Owners |-> END]
    /\ pid = [u \in Owners |-> NoPid]
    /\ mem = [u \in Owners |-> None]
    /\ outcome = Result(uid, "none")
    /\ wr = None
    /\ ret = None
    /\ job = None
    /\ calls = <<>>

NextStore ==
    \/ \E u \in Owners : store_create(u)
    \/ \E u \in Owners, i \in Ids : store_save(u, i)
    \/ \E i \in Ids : store_foreign(uid, i)
    \/ store_write
    \/ store_crash
    \/ \E u \in Owners, i \in Ids : store_load(u, i)
    \/ \E u \in Owners, limit \in 0..MaxLimit : store_list(u, limit)

SpecStore == InitStore /\ [][NextStore]_vars

-----------------------------------------------------------------------------
\* Sessions of different users share nothing but the clock: user_data, the
\* conversation state and the directory <DATA_DIR>/<user id>/ are per user, and
\* python-telegram-bot runs the handlers one after the other. The wizard is
\* followed for one user, uid; which of the users it is makes no difference.
Init ==
    /\ impl \in {"legacy", "pkg"}
    /\ uid = 1
    /\ Domain \in {<<>>, <<"s", ".", "u", "z">>}
    /\ fs = [u \in Owners |-> [i \in Ids |-> NoDir]]
    /\ now = 1
    /\ state = [u \in Owners |-> END]
    /\ pid = [u \in Owners |-> NoPid]
    /\ mem = [u \in Owners |-> None]
    /\ outcome = Result(uid, "none")
    /\ wr = None
    /\ ret = None
    /\ job = None
    /\ calls = <<>>

Next ==
    \/ cmd_start(uid)
    \/ cmd_cancel(uid)
    \/ cb_new(uid)
    \/ cb_tpl(uid)
    \/ cb_bg(uid)
    \/ cb_bgcolor(uid)
    \/ cb_align(uid)
    \/ cb_fcolor(uid)
    \/ cb_qr(uid)
    \/ cb_qrpos(uid)
    \/ cb_qrsize(uid)
    \/ cb_to(uid)
    \/ cb_back(uid)
    \/ cb_save(uid)
    \/ cb_other(uid)
    \/ set_title(uid)
    \/ set_subtitle(uid)
    \/ set_body(uid)
    \/ set_qr_text(uid)
    \/ on_photo(uid)

Spec == Init /\ [][Next]_vars

-----------------------------------------------------------------------------
(* Text layout: draw_wrapped in the legacy bot, _text_block in the package. *)
(* Both wrap the words of a text greedily into a rectangle and draw the     *)
(* lines top-down. The font enters through draw.textsize only.              *)

\* str.split(): the words of a text, in order
RECURSIVE split_acc(_, _, _)
split_acc(s, word, words) ==
    IF s = <<>> THEN (IF word # <<>> THEN Append(words, word) ELSE words)
    ELSE IF Head(s) \in WHITESPACE
    THEN split_acc(Tail(s), <<>>,
                   IF word # <<>> THEN Append(words, word) ELSE words)
    ELSE split_acc(Tail(s), Append(word, Head(s)), words)

split(s) == split_acc(s, <<>>, <<>>)

\* " ".join(words)
RECURSIVE join(_)
join(words) ==
    IF words = <<>> THEN <<>>
    ELSE IF Len(words) = 1 THEN words[1]
    ELSE words[1] \o <<" ">> \o join(Tail(words))

\* draw.textsize(t, font): the width is the sum of the advances of the
\* characters (a blank font.sp, "W" twice the font.cw of the other letters),
\* the height that of the tallest character ("W" is taller by font.tall)
char_advance(c, font) ==
    IF c \in WHITESPACE THEN font.sp
    ELSE IF c = "W" THEN 2 * font.cw
    ELSE font.cw

RECURSIVE text_width(_, _)
text_width(t, font) ==
    IF t = <<>> THEN 0
    ELSE char_advance(Head(t), font) + text_width(Tail(t), font)

text_height(t, font) ==
    IF t = <<>> THEN 0
    ELSE IF \E k \in 1..Len(t) : t[k] = "W" THEN font.h + font.tall
    ELSE font.h

textsize(t, font) == <<text_width(t, font), text_height(t, font)>>

\* a test of the width with the comparison turned round
fits_inverted(v, line, w, font, max_w) ==
    textsize(join(Append(line, w)), font)[1] >= max_w \/ line = <<>>

\* a test of the width that measures the new word alone
fits_word_only(v, line, w, font, max_w) ==
    textsize(w, font)[1] <= max_w \/ line = <<>>

\* a test of the width that refuses a word that fits exactly
fits_strictly(v, line, w, font, max_w) ==
    IF v = "legacy"
    THEN textsize(join(Append(line, w)), font)[1] < max_w
    ELSE textsize(strip(join(Append(line, w))), font)[1] <= max_w \/ line = <<>>

\* does word w still go on the line? In draw_wrapped of the legacy bot
\* (v = "legacy"): `if wpx <= max_w`; in _text_block of the package
\* (v = "pkg"): `if wpx <= max_w or not line`, on the stripped probe
fits(v, line, w, font, max_w) ==
    IF v = "legacy"
    THEN textsize(join(Append(line, w)), font)[1] <= max_w
    ELSE textsize(strip(join(Append(line, w))), font)[1] <= max_w \/ line = <<>>

\* a loop that starts the next line without keeping the one it has finished
RECURSIVE wrap_forgets_line(_, _, _, _, _, _)
wrap_forgets_line(v, words, line, lines, font, max_w) ==
    IF words = <<>>
    THEN (IF line # <<>> THEN Append(lines, join(line)) ELSE lines)
    ELSE IF fits(v, line, Head(words), font, max_w)
    THEN wrap_forgets_line(v, Tail(words), Append(line, Head(words)), lines,
                           font, max_w)
    ELSE wrap_forgets_line(v, Tail(words), <<Head(words)>>, lines, font, max_w)

\* the loop over the words: line is the line being filled, lines the
\* finished ones
RECURSIVE wrap(_, _, _, _, _, _)
wrap(v, words, line, lines, font, max_w) ==
    IF words = <<>>
    THEN (IF line # <<>> THEN Append(lines, join(line)) ELSE lines)
    ELSE IF fits(v, line, Head(words), font, max_w)
    THEN wrap(v, Tail(words), Append(line, Head(words)), lines, font, max_w)
    ELSE wrap(v, Tail(words), <<Head(words)>>,
              IF line # <<>> THEN Append(lines, join(line)) ELSE lines,
              font, max_w)

\* a centred line without the halving of the slack
line_x_whole_slack(align, x0, x1, wpx) ==
    IF align = "left" THEN x0
    ELSE IF align = "right" THEN x1 - wpx
    ELSE x0 + ((x1 - x0) - wpx)

\* the x of a line of width wpx
line_x(align, x0, x1, wpx) ==
    IF align = "left" THEN x0
    ELSE IF align = "right" THEN x1 - wpx
    ELSE x0 + ((x1 - x0) - wpx) \div 2

\* an advance by the bare height of the line
line_advance_no_leading(hpx) == hpx

\* int(hpx * 1.25)
line_advance(hpx) == (hpx * 5) \div 4

\* the loop over the lines: draw.text((x, y), ln) until a line would end
\* below y1
RECURSIVE place(_, _, _, _, _, _)
place(lines, y, out, area, font, align) ==
    IF lines = <<>> THEN out
    ELSE LET ln == Head(lines)
             wpx == textsize(ln, font)[1]
             hpx == textsize(ln, font)[2]
         IN  IF y + hpx > area[4] THEN out
             ELSE place(Tail(lines), y + line_advance(hpx),
                        Append(out, [x |-> line_x(align, area[1], area[3], wpx),
                                     y |-> y, w |-> wpx, h |-> hpx, text |-> ln]),
                        area, font, align)

\* the lines version v wraps a text into
lines_of(v, text, area, font) ==
    IF text = <<>> THEN <<>>
    ELSE wrap(v, split(text), <<>>, <<>>, font, area[3] - area[1])

\* the lines a text is wrapped into by the running bot
wrapped_lines(text, area, font) == lines_of(impl, text, area, font)

\* draw_wrapped of the legacy bot: the draw.text calls it makes
draw_wrapped(text, area, font, align) ==
    place(lines_of("legacy", text, area, font), area[2], <<>>, area, font, align)

\* _text_block of the package: the draw.text calls it makes
core_text_block(text, area, font, align) ==
    place(lines_of("pkg", text, area, font), area[2], <<>>, area, font, align)

\* the text block of the running bot
text_block(text, area, font, align) ==
    IF impl = "legacy" THEN draw_wrapped(text, area, font, align)
    ELSE core_text_block(text, area, font, align)

\* The texts, fonts, alignments and rectangles of SpecLayout. The texts hold
\* runs of blanks, a word wider than some rectangles and the title
\* "Happy Birthday"; the second font makes that title 600 wide; the last
\* rectangle is top_area of render_image, 1040 wide.
LayoutTexts ==
    { <<>>,
      <<" ", " ">>,
      <<"W", "W", "W">>,
      <<"a", "a", " ", "a", " ", "W">>,
      <<" ", "a", " ", " ", "a", "a", "a", " ">>,
      <<"a", " ", "a", " ", "W", "W", "W", " ", "a">>,
      <<"H", "a", "p", "p", "y", " ", "B", "i", "r", "t", "h", "d", "a", "y">> }

LayoutFonts ==
    { [cw |-> 2, sp |-> 1, h |-> 3, tall |-> 1],
      [cw |-> 43, sp |-> 41, h |-> 90, tall |-> 0] }

LayoutAligns == {"left", "right", "center", "zz"}

LayoutAreas ==
    { <<1, y[1], 1 + w, y[2]>> :
        w \in {0, 2, 5, 7, 11}, y \in {<<0, 6>>, <<2, 9>>, <<0, 40>>} }
    \cup { <<80, 80, 1120, 750>> }

\* one call of draw_wrapped / _text_block for the text of the job; the model
\* keeps the last two calls
text_block_call(area) ==
    /\ job # None
    /\ calls' = (IF Len(calls) < 2 THEN calls ELSE Tail(calls))
                \o << [area  |-> area,
                       lines |-> wrapped_lines(job.text, area, job.font),
                       drawn |-> text_block(job.text, area, job.font, job.align),
                       legacy |-> [lines |-> lines_of("legacy", job.text, area, job.font),
                                   drawn |-> draw_wrapped(job.text, area, job.font,
                                                          job.align)],
                       pkg |-> [lines |-> lines_of("pkg", job.text, area, job.font),
                                drawn |-> core_text_block(job.text, area, job.font,
                                                          job.align)]] >>
    /\ UNCHANGED <<impl, uid, Domain, fs, now, state, pid, mem, outcome,
                   store_vars, job>>

InitLayout ==
    /\ impl \in {"legacy", "pkg"}
    /\ uid = 1
    /\ Domain = <<>>
    /\ fs = [u \in Owners |-> [i \in Ids |-> NoDir]]
    /\ now = 1
    /\ state = [u \in Owners |-> END]
    /\ pid = [u \in Owners |-> NoPid]
    /\ mem = [u \in Owners |-> None]
    /\ outcome = Result(uid, "none")
    /\ wr = None
    /\ ret = None
    /\ job \in [text : LayoutTexts, font : LayoutFonts, align : LayoutAligns]
    /\ calls = <<>>

NextLayout == \E area \in LayoutAreas : text_block_call(area)

SpecLayout == InitLayout /\ [][NextLayout]_vars

-----------------------------------------------------------------------------
(* render_image: what is drawn where. A frame holds the draw.text calls of  *)
(* the three text blocks, the box the QR code is pasted into and the file   *)
(* the image is saved to.                                                   *)

CANVAS == <<1200, 1500>>
MARGIN == 80

SYSTEM_DEJAVU == "/usr/share/fonts/truetype/dejavu/DejaVuSans.ttf"
SYSTEM_FREESANS == "/usr/share/fonts/truetype/freefont/FreeSans.ttf"

\* ImageFont.truetype(file, size): the metric of a font file is given in
\* hundredths of the size
truetype(family, size) ==
    [ cw |-> (family.cw * size) \div 100, sp |-> (family.sp * size) \div 100,
      h |-> (family.h * size) \div 100, tall |-> (family.tall * size) \div 100 ]

\* ImageFont.load_default(): a bitmap font, of one size
load_default == [cw |-> 6, sp |-> 6, h |-> 11, tall |-> 0]

\* a host is a function from the font files it has to their metric:
\* ImageFont.truetype(file, size) raises for every other file, and for ""
opens(host, file) == file \in DOMAIN host

\* the loop of get_font over the candidates; the package skips an empty
\* candidate without trying it (`if p`)
RECURSIVE try_fonts(_, _, _)
try_fonts(host, candidates, size) ==
    IF candidates = <<>> THEN load_default
    ELSE IF ~(impl = "pkg" /\ Head(candidates) = "") /\ opens(host, Head(candidates))
    THEN truetype(host[Head(candidates)], size)
    ELSE try_fonts(host, Tail(candidates), size)

\* a get_font that tries the system font before the requested one
get_font_system_first(host, font_name, size) ==
    try_fonts(host, <<SYSTEM_DEJAVU, font_name, SYSTEM_FREESANS>>, size)

\* get_font / _get_font
get_font(host, font_name, size) ==
    try_fonts(host, <<font_name, SYSTEM_DEJAVU, SYSTEM_FREESANS>>, size)

\* The metrics of the font files, the hosts and the font references of
\* SpecFont: every set of the three files, and references to the default
\* font of the record, to no file ("") and to a file no host has
RenderFamilies ==
    [ own |-> [cw |-> 40, sp |-> 30, h |-> 110, tall |-> 20],
      system |-> [cw |-> 48, sp |-> 46, h |-> 100, tall |-> 0],
      free |-> [cw |-> 50, sp |-> 25, h |-> 95, tall |-> 5] ]

FontFamilyOf(file) ==
    IF file = SYSTEM_DEJAVU THEN RenderFamilies.system
    ELSE IF file = SYSTEM_FREESANS THEN RenderFamilies.free
    ELSE RenderFamilies.own

FontFiles == {DefaultFont, SYSTEM_DEJAVU, SYSTEM_FREESANS}

FontHosts == { [f \in S |-> FontFamilyOf(f)] : S \in SUBSET FontFiles }

FontRefs == {DefaultFont, "", "Missing.ttf", SYSTEM_FREESANS}

FontSizes == {90, 56, 44}

\* one call of get_font(font_name, size) on the host of the job; the model
\* keeps the last two calls
get_font_call(size) ==
    /\ job # None
    /\ calls' = (IF Len(calls) < 2 THEN calls ELSE Tail(calls))
                \o << [size |-> size,
                       font |-> get_font(job.host, job.font_name, size)] >>
    /\ UNCHANGED <<impl, uid, Domain, fs, now, state, pid, mem, outcome,
                   store_vars, job>>

InitFont ==
    /\ impl \in {"legacy", "pkg"}
    /\ uid = 1
    /\ Domain = <<>>
    /\ fs = [u \in Owners |-> [i \in Ids |-> NoDir]]
    /\ now = 1
    /\ state = [u \in Owners |-> END]
    /\ pid = [u \in Owners |-> NoPid]
    /\ mem = [u \in Owners |-> None]
    /\ outcome = Result(uid, "none")
    /\ wr = None
    /\ ret = None
    /\ job \in [host : FontHosts, font_name : FontRefs]
    /\ calls = <<>>

NextFont == \E size \in FontSizes : get_font_call(size)

SpecFont == InitFont /\ [][NextFont]_vars

\* the side of the QR code: p.qr_size in the legacy bot,
\* max(120, min(600, int(qr_size))) in the package
render_qr_size(p) ==
    IF impl = "legacy" THEN p.qr_size ELSE max(120, min(600, p.qr_size))

\* a QR test that looks at the switch only
qr_wanted_switch_only(p) == p.qr_enabled

\* if p.qr_enabled and p.qr_url
qr_wanted(p) == p.qr_enabled /\ p.qr_url # <<>>

\* anchors computed for the default size, whatever the size of the code
qr_positions_default_size(size) ==
    LET W == CANVAS[1]
        H == CANVAS[2]
    IN  [ tl |-> <<MARGIN, MARGIN>>,
          tr |-> <<W - MARGIN - QR_DEFAULT, MARGIN>>,
          bl |-> <<MARGIN, H - MARGIN - QR_DEFAULT>>,
          br |-> <<W - MARGIN - QR_DEFAULT, H - MARGIN - QR_DEFAULT>>,
          c |-> <<(W - QR_DEFAULT) \div 2, (H - QR_DEFAULT) \div 2>> ]

\* the positions dictionary of a code of the given size
qr_positions(size) ==
    LET W == CANVAS[1]
        H == CANVAS[2]
    IN  [ tl |-> <<MARGIN, MARGIN>>,
          tr |-> <<W - MARGIN - size, MARGIN>>,
          bl |-> <<MARGIN, H - MARGIN - size>>,
          br |-> <<W - MARGIN - size, H - MARGIN - size>>,
          c |-> <<(W - size) \div 2, (H - size) \div 2>> ]

\* a lookup that falls back to the top-left anchor
qr_anchor_fallback_tl(qr_pos, size) ==
    IF qr_pos \in DOMAIN qr_positions(size)
    THEN qr_positions(size)[qr_pos]
    ELSE qr_positions(size)["tl"]

\* positions.get(p.qr_pos, positions["br"])
qr_anchor(qr_pos, size) ==
    IF qr_pos \in DOMAIN qr_positions(size)
    THEN qr_positions(size)[qr_pos]
    ELSE qr_positions(size)["br"]

\* the box the QR code is pasted into, None when no code is drawn
qr_box(p) ==
    IF ~qr_wanted(p) THEN None
    ELSE [ size |-> render_qr_size(p),
           pos |-> qr_anchor(p.qr_pos, render_qr_size(p)) ]

\* a render that sets the title of the final image in a larger font
render_frame_final_title(host, p, final) ==
    LET W == CANVAS[1]
        H == CANVAS[2]
        top_area == <<MARGIN, MARGIN, W - MARGIN, H \div 2>>
        sub_area == <<MARGIN, H \div 2 - 80, W - MARGIN, H \div 2 + 140>>
        body_area == <<MARGIN, H \div 2 + 120, W - MARGIN, H - MARGIN - 260>>
    IN  [ title |-> text_block(p.title, top_area,
                               get_font(host, p.font_name,
                                        IF final THEN 120 ELSE 90), p.align),
          subtitle |-> text_block(p.subtitle, sub_area,
                                  get_font(host, p.font_name, 56), p.align),
          body |-> text_block(p.body, body_area,
                              get_font(host, p.font_name, 44), p.align),
          qr |-> qr_box(p),
          out |-> <<p.user_id, p.id, IF final THEN "final.jpg" ELSE "preview.jpg">> ]

\* render_image(p, final): the frame of the image, that is what its calls
\* draw: the lines of the three text blocks, the box of the QR code, and
\* the file it saves to
render_frame(host, p, final) ==
    LET W == CANVAS[1]
        H == CANVAS[2]
        top_area == <<MARGIN, MARGIN, W - MARGIN, H \div 2>>
        sub_area == <<MARGIN, H \div 2 - 80, W - MARGIN, H \div 2 + 140>>
        body_area == <<MARGIN, H \div 2 + 120, W - MARGIN, H - MARGIN - 260>>
    IN  [ title |-> text_block(p.title, top_area,
                               get_font(host, p.font_name, 90), p.align),
          subtitle |-> text_block(p.subtitle, sub_area,
                                  get_font(host, p.font_name, 56), p.align),
          body |-> text_block(p.body, body_area,
                              get_font(host, p.font_name, 44), p.align),
          qr |-> qr_box(p),
          out |-> <<p.user_id, p.id, IF final THEN "final.jpg" ELSE "preview.jpg">> ]

\* The colours of the model, spelled out: those the keyboards offer, the
\* defaults, and "#zzzzzz", which only a forged callback (a:bgcolor|c=...)
\* or an edited meta.json can carry
ColourText(c) ==
    CASE c = "#ffffff" -> <<"#", "f", "f", "f", "f", "f", "f">>
      [] c = "#fff7e6" -> <<"#", "f", "f", "f", "7", "e", "6">>
      [] c = "#111111" -> <<"#", "1", "1", "1", "1", "1", "1">>
      [] c = "#zzzzzz" -> <<"#", "z", "z", "z", "z", "z", "z">>
      [] OTHER -> <<>>

HEXDIGITS ==
    { "0", "1", "2", "3", "4", "5", "6", "7", "8", "9",
      "a", "b", "c", "d", "e", "f", "A", "B", "C", "D", "E", "F" }

HexLower ==
    <<"0", "1", "2", "3", "4", "5", "6", "7", "8", "9", "a", "b", "c", "d", "e", "f">>

HexUpper ==
    <<"0", "1", "2", "3", "4", "5", "6", "7", "8", "9", "A", "B", "C", "D", "E", "F">>

WHITE == <<255, 255, 255>>

\* str.lstrip("#")
RECURSIVE lstrip_hash(_)
lstrip_hash(t) ==
    IF t # <<>> /\ Head(t) = "#" THEN lstrip_hash(Tail(t)) ELSE t

\* s[a:b] of Python, for 0 <= a <= b
slice(s, a, b) ==
    IF a >= Len(s) THEN <<>>
    ELSE SubSeq(s, a + 1, IF b < Len(s) THEN b ELSE Len(s))

\* int(t, 16) does not raise: blanks around the digits are skipped, and at
\* least one digit is left
is_hex(t) ==
    LET u == strip(t)
    IN  u # <<>> /\ \A k \in 1..Len(u) : u[k] \in HEXDIGITS

\* the value of one hexadecimal digit
hex_value(ch) ==
    (CHOOSE k \in 1..16 : HexLower[k] = ch \/ HexUpper[k] = ch) - 1

\* int(t, 16) of digits
RECURSIVE int16_acc(_, _)
int16_acc(u, n) ==
    IF u = <<>> THEN n ELSE int16_acc(Tail(u), 16 * n + hex_value(Head(u)))

int16(t) == int16_acc(strip(t), 0)

\* hex_to_rgb / _hex_to_rgb of a text. The legacy function returns white
\* for a wrong length and lets the ValueError of int(.., 16) out; the package
\* takes the three slices of whatever length is there, catches the error and
\* returns white.
hex_to_rgb_text(t) ==
    LET given == IF impl = "pkg" /\ t = <<>>
                 THEN <<"#", "f", "f", "f", "f", "f", "f">> ELSE t
        s == lstrip_hash(strip(given))
        six == IF Len(s) = 3 THEN <<s[1], s[1], s[2], s[2], s[3], s[3]>> ELSE s
        parts == << slice(six, 0, 2), slice(six, 2, 4), slice(six, 4, 6) >>
        parsed == \A k \in 1..3 : is_hex(parts[k])
        rgb == << int16(parts[1]), int16(parts[2]), int16(parts[3]) >>
    IN  IF impl = "legacy"
        THEN (IF Len(six) # 6 THEN WHITE
              ELSE IF parsed THEN rgb ELSE Raised)
        ELSE (IF parsed THEN rgb ELSE WHITE)

\* hex_to_rgb / _hex_to_rgb of a colour of the record
hex_to_rgb(c) == hex_to_rgb_text(ColourText(c))

\* does Path(p.bg_image).exists() hold? The uploads of the wizard are the
\* only background files of the model.
bg_exists(f, path) ==
    /\ path # NoPath
    /\ path[1] \in Owners /\ path[2] \in Ids
    /\ f[path[1]][path[2]].bg
    /\ path = BgPath(path[1], path[2])

\* a background step that pastes whatever the record names
paste_background_unchecked(f, env, p) ==
    IF p.bg_mode = "image" /\ p.bg_image # NoPath
    THEN << [op |-> "image", path |-> p.bg_image] >>
    ELSE <<>>

\* the background image: pasted over the fill if the record is in image
\* mode, names a file, the file exists and Image.open can read it; a file
\* that cannot be read is logged and left out
paste_background(f, env, p) ==
    IF p.bg_mode = "image" /\ p.bg_image # NoPath /\ bg_exists(f, p.bg_image)
       /\ ~env.bad_bg
    THEN << [op |-> "image", path |-> p.bg_image] >>
    ELSE <<>>

\* the three calls of draw_wrapped / _text_block, with their arguments
text_calls(p, color) ==
    LET W == CANVAS[1]
        H == CANVAS[2]
    IN  << [op |-> "title", text |-> p.title, px |-> 90, color |-> color,
            area |-> <<MARGIN, MARGIN, W - MARGIN, H \div 2>>, align |-> p.align],
           [op |-> "subtitle", text |-> p.subtitle, px |-> 56, color |-> color,
            area |-> <<MARGIN, H \div 2 - 80, W - MARGIN, H \div 2 + 140>>,
            align |-> p.align],
           [op |-> "body", text |-> p.body, px |-> 44, color |-> color,
            area |-> <<MARGIN, H \div 2 + 120, W - MARGIN, H - MARGIN - 260>>,
            align |-> p.align] >>

\* the paste of the QR code, if there is one
qr_paste(p) ==
    IF qr_box(p) # None THEN << [op |-> "qr", box |-> qr_box(p)] >> ELSE <<>>

\* a paint order with the QR code under the texts
painted_qr_first(background, p, color) ==
    background \o qr_paste(p) \o text_calls(p, color)

\* what is painted on the canvas, in the order of the calls: the background,
\* the three text blocks, the QR code
painted(background, p, color) ==
    background \o text_calls(p, color) \o qr_paste(p)

\* the path of the output file
out_path(p, final) ==
    <<p.user_id, p.id, IF final THEN "final.jpg" ELSE "preview.jpg">>

\* render_image(p, final=final) in the file system f, on a host env (whether
\* the uploaded background is readable, whether the output file can be
\* written): the calls it made on the canvas, in order, whether it raised,
\* whether it came as far as the save, and the path it returned
render_image(f, env, p, final) ==
    LET bg == hex_to_rgb(p.bg_color)
        fg == hex_to_rgb(p.font_color)
        fill == << [op |-> "fill", color |-> bg] >>
        background == fill \o paste_background(f, env, p)
        canvas == painted(background, p, fg)
    IN  IF bg = Raised
        THEN [raised |-> TRUE, ops |-> <<>>, at_save |-> FALSE, ret |-> None]
        ELSE IF fg = Raised
        THEN [raised |-> TRUE, ops |-> background, at_save |-> FALSE, ret |-> None]
        ELSE IF ~env.writable
        THEN [raised |-> TRUE, ops |-> canvas, at_save |-> TRUE, ret |-> None]
        ELSE [raised |-> FALSE,
              ops |-> canvas \o << [op |-> "save", out |-> out_path(p, final)] >>,
              at_save |-> TRUE, ret |-> out_path(p, final)]

\* the image a run has painted: its steps without the save
image_of(run) ==
    SelectSeq(run.ops, LAMBDA o : o.op # "save")

\* the file system after the run: the package makes the project directory
\* before it saves (_project_dir); a run that did not raise has saved
render_fs(f, p, final, run, t) ==
    LET g == IF impl = "pkg" /\ run.at_save THEN mkdir(f, p.user_id, p.id, t) ELSE f
    IN  IF run.raised THEN g
        ELSE save_image(g, p.user_id, p.id, final, image_of(run), t)

\* The records of SpecRender, as the wizard can have stored them: a title
\* of two lines at 90 px and a body; the QR code on at every position the
\* keyboard offers and at one it does not ("zz"), in the smallest, the
\* default and the largest size; the QR code off, or on without a URL; the
\* background an uploaded image, or in image mode without a file; and the
\* two records with a colour of a forged callback.
HappyBirthday ==
    <<"H", "a", "p", "p", "y", " ", "B", "i", "r", "t", "h", "d", "a", "y">>

RenderBase ==
    [new_project(uid, "a", 1) EXCEPT
        !.title = HappyBirthday \o <<" ">> \o HappyBirthday,
        !.body = Tail(HappyBirthday)]

RenderQrPositions == {"tl", "tr", "bl", "br", "c", "zz"}
RenderQrSizes == {QR_MIN, QR_DEFAULT, QR_DEFAULT + 1, QR_MAX}

QrRecords ==
    { [RenderBase EXCEPT !.qr_enabled = TRUE, !.qr_pos = pos, !.qr_size = z] :
        pos \in RenderQrPositions, z \in RenderQrSizes }

NoQrRecords ==
    { [RenderBase EXCEPT !.qr_pos = "tl"],
      [RenderBase EXCEPT !.qr_enabled = TRUE, !.qr_url = <<>>, !.qr_pos = "c"],
      [RenderBase EXCEPT !.title = HappyBirthday, !.qr_url = <<>>] }

ForgedColourRecords ==
    { [RenderBase EXCEPT !.title = HappyBirthday, !.bg_color = "#zzzzzz"],
      [RenderBase EXCEPT !.title = HappyBirthday, !.font_color = "#zzzzzz"] }

ImageRecord ==
    [RenderBase EXCEPT !.bg_mode = "image", !.bg_image = BgPath(uid, "a"),
                       !.qr_enabled = TRUE, !.qr_pos = "c"]

ImageModeNoFile == [RenderBase EXCEPT !.bg_mode = "image"]

\* hosts that have the font of the record and the system font, or no font
\* file at all
RenderHost == [f \in {DefaultFont, SYSTEM_DEJAVU} |-> FontFamilyOf(f)]
BareHost == [f \in {} |-> RenderFamilies.system]

\* a scenario: a record, the host, what became of the record's bg.jpg ("ok":
\* uploaded and readable, "bad": there but not an image Pillow can read,
\* "none": no file), and whether the project directory can be written
RenderScenarios ==
    { [p |-> r, host |-> RenderHost, bg |-> "none", writable |-> TRUE] :
        r \in QrRecords \cup NoQrRecords \cup ForgedColourRecords
              \cup {ImageModeNoFile, ImageRecord} }
    \cup { [p |-> ImageRecord, host |-> RenderHost, bg |-> b, writable |-> TRUE] :
             b \in {"ok", "bad"} }
    \cup { [p |-> r, host |-> RenderHost, bg |-> "none", writable |-> FALSE] :
             r \in NoQrRecords }
    \cup { [p |-> r, host |-> BareHost, bg |-> "none", writable |-> TRUE] :
             r \in NoQrRecords }

RenderAligns == {"center", "right"}

\* render_image(p, final=final) is called for the record of the job; the
\* model keeps the last two renders, each with the record it was given and
\* with what its calls drew
render_call(final) ==
    /\ job # None
    /\ LET run == render_image(fs, job.env, job.p, final)
       IN  /\ calls' = (IF Len(calls) < 2 THEN calls ELSE Tail(calls))
                       \o << [p |-> job.p, final |-> final,
                              frame |-> render_frame(job.host, job.p, final),
                              run |-> run] >>
           /\ fs' = render_fs(fs, job.p, final, run, now)
    /\ UNCHANGED <<impl, uid, Domain, now, state, pid, mem, outcome,
                   store_vars, job>>

\* the record is mutated and saved between renders (a:align|v=...); the
\* clock of SpecRender stands still
render_edit ==
    /\ job # None
    /\ \E a \in RenderAligns \ {job.p.align} :
          LET q == [job.p EXCEPT !.align = a]
          IN  /\ fs' = save_project(fs, q, now)
              /\ job' = [job EXCEPT !.p = saved(q, now)]
    /\ UNCHANGED <<impl, uid, Domain, now, state, pid, mem, outcome,
                   store_vars, calls>>

InitRender ==
    /\ impl \in {"legacy", "pkg"}
    /\ uid = 1
    /\ Domain = <<"s", ".", "u", "z">>
    /\ now = 2
    /\ state = [u \in Owners |-> END]
    /\ pid = [u \in Owners |-> NoPid]
    /\ mem = [u \in Owners |-> None]
    /\ outcome = Result(uid, "none")
    /\ wr = None
    /\ ret = None
    /\ \E sc \in RenderScenarios :
          LET f0 == save_project([u \in Owners |-> [i \in Ids |-> NoDir]], sc.p, 1)
              f1 == IF sc.bg = "none" THEN f0 ELSE download_bg(f0, uid, "a", 1)
          IN  /\ fs = f1
              /\ job = [host |-> sc.host,
                        env |-> [bad_bg |-> sc.bg = "bad", writable |-> sc.writable],
                        p |-> load_project(f1, uid, "a")]
    /\ calls = <<>>

NextRender ==
    \/ \E final \in BOOLEAN : render_call(final)
    \/ render_edit

SpecRender == InitRender /\ [][NextRender]_vars

-----------------------------------------------------------------------------
(* render_async: a render handed to the worker thread, and the handlers that
   run while it is there. A handler awaits its render, and the updates of
   one bot process are handled one after the other, so the handlers that run
   while a render is in flight are those of another bot process on the same
   DATA_DIR. *)

AsyncAligns == {"left", "center", "right"}

\* a worker that reads the stored record when it starts
render_input_stored(flight, f) == load_project(f, flight.p.user_id, flight.p.id)

\* loop.run_in_executor(None, render_image, p, final): the record the worker
\* is given is the object the handler passed, in the package the namespace
\* as_obj made of the handler's dictionary
render_input(flight, f) == flight.p

\* a handler has loaded the current project (get_current_project / get_proj)
\* and awaits render_async(p, final=final); the job remembers the record as
\* it was loaded
async_begin(final) ==
    /\ job.flight = None
    /\ LET p == load_project(fs, uid, "a")
       IN  /\ p \notin {None, Raised}
           /\ job' = [job EXCEPT !.flight = [p |-> p, final |-> final, loaded |-> p]]
    /\ UNCHANGED <<impl, uid, Domain, fs, now, state, pid, mem, outcome,
                   store_vars, calls>>

\* a:align|v=... or a:qr|v=toggle: the handler loads its own copy of the
\* record, mutates that and saves it
async_edit ==
    /\ LET p == load_project(fs, uid, "a")
       IN  /\ p \notin {None, Raised}
           /\ \E q \in { [p EXCEPT !.align = a] : a \in AsyncAligns \ {p.align} }
                       \cup { [p EXCEPT !.qr_enabled = ~p.qr_enabled] } :
                  fs' = save_project(fs, q, now)
    /\ UNCHANGED <<impl, uid, Domain, now, state, pid, mem, outcome,
                   store_vars, job, calls>>

\* the worker runs render_image(p, final): final is keyword-only, so the
\* call raises TypeError and nothing is painted or written; the model keeps
\* the record the worker was given and the record stored at that moment
async_run ==
    /\ job.flight # None
    /\ RenderRaises
    /\ calls' = << [seen |-> render_input(job.flight, fs),
                    loaded |-> job.flight.loaded,
                    final |-> job.flight.final,
                    stored |-> load_project(fs, uid, "a"),
                    raised |-> TRUE] >>
    /\ job' = [job EXCEPT !.flight = None]
    /\ UNCHANGED <<impl, uid, Domain, fs, now, state, pid, mem, outcome,
                   store_vars>>

InitAsync ==
    /\ impl \in {"legacy", "pkg"}
    /\ uid = 1
    /\ Domain = <<"s", ".", "u", "z">>
    /\ now = 2
    /\ state = [u \in Owners |-> END]
    /\ pid = [u \in Owners |-> NoPid]
    /\ mem = [u \in Owners |-> None]
    /\ outcome = Result(uid, "none")
    /\ wr = None
    /\ ret = None
    /\ fs = save_project([u \in Owners |-> [i \in Ids |-> NoDir]], RenderBase, 1)
    /\ job = [flight |-> None]
    /\ calls = <<>>

NextAsync ==
    \/ \E final \in BOOLEAN : async_begin(final)
    \/ async_edit
    \/ async_run

SpecAsync == InitAsync /\ [][NextAsync]_vars

-----------------------------------------------------------------------------
(* The wizard from any point of a session: the conversation in any of its
   states, with or without a project id in user_data, and the project
   directory as a session can find it: the record stored, no directory (it
   was removed), a directory without meta.json, or a meta.json that cannot
   be parsed (a write that failed after the file was truncated). *)

SessionDirs ==
    { NoDir,
      [NoDir EXCEPT !.exists = TRUE, !.mtime = 1],
      [NoDir EXCEPT !.exists = TRUE, !.mtime = 1, !.meta = Partial],
      [NoDir EXCEPT !.exists = TRUE, !.mtime = 1,
                    !.meta = json_loads(json_dumps(new_project(1, "a", 1)))] }

SessionStates == CallbackStates \cup {SET_TITLE, SET_SUBTITLE, SET_BODY}

InitSession ==
    /\ impl \in {"legacy", "pkg"}
    /\ uid = 1
    /\ Domain = <<"s", ".", "u", "z">>
    /\ now = MaxEditClock - 1
    /\ \E d \in SessionDirs :
          fs = [u \in Owners |-> [i \in Ids |->
                    IF u = uid /\ i = "a" THEN d ELSE NoDir]]
    /\ \E s \in SessionStates : state = [u \in Owners |-> IF u = uid THEN s ELSE END]
    /\ \E i \in {NoPid, "a"} : pid = [u \in Owners |-> IF u = uid THEN i ELSE NoPid]
    /\ mem = [u \in Owners |-> None]
    /\ outcome = Result(uid, "none")
    /\ wr = None
    /\ ret = None
    /\ job = None
    /\ calls = <<>>

SpecSession == InitSession /\ [][Next]_vars

-----------------------------------------------------------------------------
(* Colour parsing on its own: SpecColour. render_image hands the bg_color   *)
(* and the font_color of the record to hex_to_rgb / _hex_to_rgb; cb_bgcolor *)
(* and cb_fcolor store whatever the callback carries, so any short text can *)
(* arrive there.                                                            *)

MaxColourLen == 7

ColourChars == {"#", "f", "1", "z", " "}

ColourTexts == UNION { [1..n -> ColourChars] : n \in 0..MaxColourLen }

\* one call of hex_to_rgb / _hex_to_rgb on the text of the job
hex_to_rgb_call ==
    /\ job # None
    /\ calls' = << LET rgb == hex_to_rgb_text(job.text)
                   IN  IF rgb = Raised
                       THEN [text |-> job.text, raised |-> TRUE, rgb |-> <<>>]
                       ELSE [text |-> job.text, raised |-> FALSE, rgb |-> rgb] >>
    /\ UNCHANGED <<impl, uid, Domain, fs, now, state, pid, mem, outcome,
                   store_vars, job>>

InitColour ==
    /\ impl \in {"legacy", "pkg"}
    /\ uid = 1
    /\ Domain = <<>>
    /\ fs = [u \in Owners |-> [i \in Ids |-> NoDir]]
    /\ now = 1
    /\ state = [u \in Owners |-> END]
    /\ pid = [u \in Owners |-> NoPid]
    /\ mem = [u \in Owners |-> None]
    /\ outcome = Result(uid, "none")
    /\ wr = None
    /\ ret = None
    /\ job \in [text : ColourTexts]
    /\ calls = <<>>

NextColour == hex_to_rgb_call

SpecColour == InitColour /\ [][NextColour]_vars

-----------------------------------------------------------------------------
(* Properties of the wizard, checked under Spec *)

\* every record in the store
Stored == { fs[u][i].meta : u \in Owners, i \in Ids } \ {Absent, Partial}

\* C1: after any sequence of wizard actions, qrsize callbacks with any delta
\* among them, the qr_size of every persisted record (and of the record the
\* handler holds) lies within 120..400.
C1_QrSizeInRange ==
    /\ \A r \in Stored : r.qr_size \in QR_MIN..QR_MAX
    /\ \A u \in Owners : mem[u] # None => mem[u].qr_size \in QR_MIN..QR_MAX

\* a qrsize callback overshot the upper bound and the stored size is the bound
C1_Witness ==
    /\ state[uid] = SET_QR
    /\ mem[uid] # None
    /\ fs[uid][mem[uid].id].meta = mem[uid]
    /\ mem[uid].qr_size = QR_MAX

\* C2: a text that the URL validator of the SET_QR step rejects changes no
\* stored record (qr_enabled and qr_url included), performs no save, and
\* leaves the conversation in SET_QR.
C2_RejectedUrlChangesNothing ==
    [][ outcome'.result = "rejected" =>
            /\ state[uid] = SET_QR
            /\ state' = state
            /\ now' = now
            /\ mem' = mem
            /\ \A u \in Owners, i \in Ids : fs'[u][i].meta = fs[u][i].meta ]_vars

\* a text was rejected while a project with its QR settings was open
C2_Witness ==
    /\ outcome = Result(uid, "rejected")
    /\ state[uid] = SET_QR
    /\ HasProject(uid)

\* an absolute http(s) URL: the scheme, then a non-empty rest without blanks
IsAbsoluteHttpUrl(s) ==
    /\ \E prefix \in {HTTP, HTTPS} :
          startswith(s, prefix) /\ Len(s) > Len(prefix)
    /\ \A k \in 1..Len(s) : s[k] \notin WHITESPACE

\* C3: in every persisted record qr_url is either empty or an absolute URL
\* with scheme http or https; no other value is ever persisted.
C3_QrUrlEmptyOrAbsolute ==
    \A r \in Stored : r.qr_url = <<>> \/ IsAbsoluteHttpUrl(r.qr_url)

\* C9: whenever the conversation waits for the next user action, the stored
\* record of the project equals the record as the last handler mutated it:
\* every mutating handler saved before it returned.
C9_StoredEqualsMutated ==
    \A u \in Owners : mem[u] # None => fs[u][mem[u].id].meta = mem[u]

\* the title step has mutated the record and handed over to the subtitle step
C9_Witness ==
    /\ state[uid] = SET_SUBTITLE
    /\ mem[uid] # None
    /\ mem[uid].title # <<>>
    /\ outcome = Result(uid, "ok")

\* C10: the record stored under <owner>/<id> has exactly that id and that
\* user_id, and the project a session works on is stored under the session's
\* user and the project's id: no wizard action changes either field.
C10_IdAndOwnerFixed ==
    /\ \A u \in Owners, i \in Ids :
          IsRecord(fs[u][i].meta) =>
              fs[u][i].meta.id = i /\ fs[u][i].meta.user_id = u
    /\ \A u \in Owners :
          (pid[u] # NoPid /\ mem[u] # None) =>
              /\ IsRecord(fs[u][pid[u]].meta)
              /\ mem[u].id = pid[u]
              /\ mem[u].user_id = u

\* two projects of one user are stored, the second one edited after creation
C10_Witness ==
    /\ \A i \in Ids : IsRecord(fs[uid][i].meta)
    /\ pid[uid] # NoPid
    /\ fs[uid][pid[uid]].meta.title # <<>>

\* the defaults a new record of user u with id i carries
HasDefaults(r, u, i) ==
    /\ r.id = i
    /\ r.user_id = u
    /\ r.template = "classic"
    /\ r.bg_mode = "color"
    /\ r.bg_color = "#ffffff"
    /\ r.bg_image = NoPath
    /\ r.title = <<>> /\ r.subtitle = <<>> /\ r.body = <<>>
    /\ r.align = "center"
    /\ ~r.qr_enabled
    /\ r.qr_pos = "br"
    /\ r.qr_size = 220
    /\ r.qr_url = (IF Domain = <<>> THEN <<>>
                   ELSE HTTPS \o Domain \o <<"/", "p", "/", i>>)

\* what the "new" action does besides choosing the id
CreateEffect ==
    /\ IsRecord(fs'[uid][pid'[uid]].meta)
    /\ HasDefaults(fs'[uid][pid'[uid]].meta, uid, pid'[uid])
    /\ mem'[uid] = fs'[uid][pid'[uid]].meta
    /\ \A u \in Owners, j \in Ids :
          (u # uid \/ j # pid'[uid]) => fs'[u][j].meta = fs[u][j].meta

\* C11: the "new" action allocates an id that no existing project of the
\* owner has, persists a record with the documented defaults under it, makes
\* it the session's current project and changes no existing project's record.
C11_CreateFreshWithDefaults ==
    [][ outcome'.result = "created" =>
            /\ ~IsRecord(fs[uid][pid'[uid]].meta)
            /\ CreateEffect ]_vars

\* the same for the creations whose uuid is not the id of an existing project
C11_CreateOnUnusedId ==
    [][ (outcome'.result = "created" /\ ~IsRecord(fs[uid][pid'[uid]].meta))
            => CreateEffect ]_vars

\* C13: every persisted mutation refreshes updated_at: a step that changes a
\* stored record leaves it with updated_at equal to the time of the step, so
\* (the clock never running backwards) the stored updated_at never decreases
\* and is never older than the latest persisted mutation.
C13_UpdatedAtRefreshed ==
    [][ \A u \in Owners, i \in Ids :
          (IsRecord(fs'[u][i].meta) /\ fs'[u][i].meta # fs[u][i].meta) =>
              /\ fs'[u][i].meta.updated_at = now
              /\ now' > now
              /\ IsRecord(fs[u][i].meta) =>
                    fs'[u][i].meta.updated_at >= fs[u][i].meta.updated_at ]_vars

\* a record that was created, then changed by the template button a tick later
C13_Witness ==
    /\ state[uid] = SET_BG
    /\ mem[uid] # None
    /\ mem[uid].template = "minimal"
    /\ fs[uid][mem[uid].id].meta.updated_at = now - 1
    /\ fs[uid][mem[uid].id].meta.updated_at >= 2

\* C14: in every persisted record that wizard actions can produce (background
\* mode callbacks with any mode, colour callbacks, photo uploads, in any
\* order), bg_mode = "color" implies that bg_image is None.
C14_ColorHasNoImage ==
    /\ \A r \in Stored : r.bg_mode = "color" => r.bg_image = NoPath
    /\ \A u \in Owners :
          (mem[u] # None /\ mem[u].bg_mode = "color") => mem[u].bg_image = NoPath

\* a photo was uploaded as the background, then the mode was set back to
\* color: bg.jpg is still in the directory, the record no longer names it
C14_Witness ==
    /\ pid[uid] # NoPid
    /\ fs[uid][pid[uid]].bg
    /\ IsRecord(fs[uid][pid[uid]].meta)
    /\ fs[uid][pid[uid]].meta.bg_mode = "color"
    /\ fs[uid][pid[uid]].meta.bg_image = NoPath

-----------------------------------------------------------------------------
(* Properties of the Project Store, checked under SpecStore *)

\* C12: a save followed by a load of the same (owner, id) returns a record
\* equal to the saved one in every field, updated_at being the value that
\* save set; the save makes the directories it needs.
C12_LoadAfterSave ==
    [][ (wr # None /\ wr' = None /\ fs' # fs) =>
            /\ fs'[wr.rec.user_id][wr.rec.id].exists
            /\ load_project(fs', wr.rec.user_id, wr.rec.id) = wr.rec ]_vars

\* a load, with no save in progress, returned a record whose title holds a
\* backslash and a quote
C12_Witness ==
    /\ ret # None
    /\ ret.op = "load"
    /\ ~ret.racing
    /\ ret.val \notin {None, Raised}
    /\ ret.val.title = <<"a", "\\", "\"">>
    /\ ret.val = fs[ret.user][ret.id].meta

\* C15: loading a stored record that lacks some fields, or carries fields
\* the program does not know, does not fail, and the record it returns has
\* every field, the missing ones with their documented defaults.
C15_LoadFillsDefaults ==
    (ret # None /\ ret.op = "load" /\ IsRecord(ret.content)) =>
        /\ ret.val \notin {None, Raised}
        /\ Fields \subseteq DOMAIN ret.val
        /\ \A k \in Fields :
              ret.val[k] = (IF k \in DOMAIN ret.content THEN ret.content[k]
                            ELSE FieldDefaults[k])

\* C4: load_project on a truncated or unparseable meta.json returns None and
\* never raises; it returns None as well when there is no record.
C4_LoadNeverRaises ==
    (ret # None /\ ret.op = "load") =>
        /\ ret.val # Raised
        /\ ret.content \in {Absent, Partial} => ret.val = None

\* what a load returned before the save began
Before(old) == IF IsRecord(old) THEN old ELSE None

\* C5: a load that runs while a save of the same record is in progress
\* returns the complete record from before the save (None if there was none)
\* or the complete record after it, never anything else.
C5_LoadSeesWholeRecord ==
    (ret # None /\ ret.op = "load" /\ ret.racing) =>
        ret.val \in {Before(ret.old), ret.new}

\* a meta.json content that the program can load
Parseable(m) == IsRecord(m) /\ loaded(m) # Raised

\* C6: list_projects returns the records most recently saved first: of two
\* returned records the one saved later comes earlier, and no parseable record
\* that was left out was saved later than a returned one. (Stated for the
\* limits from 1 on, which leaves the listing with limit = 0 to C7.)
C6_ListNewestSaveFirst ==
    (ret # None /\ ret.op = "list" /\ ret.limit >= 1) =>
        /\ \A a, b \in 1..Len(ret.items) :
              a < b => ret.items[a].updated_at >= ret.items[b].updated_at
        /\ \A i \in Ids, a \in 1..Len(ret.items) :
              ( /\ Parseable(ret.dirs[i].meta)
                /\ \A b \in 1..Len(ret.items) :
                      ret.items[b] # loaded(ret.dirs[i].meta) )
              => ret.items[a].updated_at >= ret.dirs[i].meta.updated_at

\* C7: list_projects(owner, limit) returns at most limit records for every
\* limit >= 0; limit = 0 yields the empty sequence.
C7_ListBoundedByLimit ==
    (ret # None /\ ret.op = "list") => Len(ret.items) <= ret.limit

\* the directories of one owner without the entries whose meta.json is
\* missing or unparseable
without_corrupt(d) ==
    [i \in DOMAIN d |-> IF Parseable(d[i].meta) THEN d[i] ELSE NoDir]

\* C8: list_projects skips the entries whose meta.json is unparseable or
\* missing: they are not in the result, they do not count towards limit, and
\* the result is what the listing of the remaining entries returns.
C8_ListSkipsCorrupt ==
    (ret # None /\ ret.op = "list") =>
        /\ \A a \in 1..Len(ret.items) : IsRecord(ret.items[a])
        /\ ret.items = list_dirs(without_corrupt(ret.dirs), ret.limit)

\* the same for the limits from 1 on
C8_ListSkipsCorruptFromOne ==
    (ret # None /\ ret.op = "list" /\ ret.limit >= 1) =>
        /\ \A a \in 1..Len(ret.items) : IsRecord(ret.items[a])
        /\ ret.items = list_dirs(without_corrupt(ret.dirs), ret.limit)

\* a listing with a limit of 1 or more passed over a corrupt entry that is
\* newer than a record it returned
C8_FromOneWitness ==
    /\ ret # None
    /\ ret.op = "list"
    /\ ret.limit >= 1
    /\ Len(ret.items) >= 1
    /\ \E i \in Ids :
          /\ ret.dirs[i].exists
          /\ ~Parseable(ret.dirs[i].meta)
          /\ ret.dirs[i].mtime > ret.dirs[ret.items[1].id].mtime

-----------------------------------------------------------------------------
(* Properties of the text layout, checked under SpecLayout *)

\* C16: the word-wrap never produces a line wider than the rectangle
\* (x1 - x0), except a line that is one single word of the text, wider than
\* the rectangle by itself and kept unsplit on a line of its own.
C16_LinesFitOrSingleWord ==
    \A k \in 1..Len(calls) :
        LET c == calls[k]
            max_w == c.area[3] - c.area[1]
        IN  \A n \in 1..Len(c.lines) :
                \/ text_width(c.lines[n], job.font) <= max_w
                \/ /\ Len(split(c.lines[n])) = 1
                   /\ c.lines[n] \in { split(job.text)[m] :
                                         m \in 1..Len(split(job.text)) }
                   /\ text_width(split(c.lines[n])[1], job.font) > max_w

\* a text of several words was wrapped: one line holds two words and fits,
\* another is a single word wider than the rectangle
C16_Witness ==
    \E k \in 1..Len(calls) :
        LET c == calls[k]
            max_w == c.area[3] - c.area[1]
        IN  /\ \E n \in 1..Len(c.lines) :
                   /\ Len(split(c.lines[n])) = 1
                   /\ text_width(c.lines[n], job.font) > max_w
            /\ \E n \in 1..Len(c.lines) :
                   /\ Len(split(c.lines[n])) >= 2
                   /\ text_width(c.lines[n], job.font) <= max_w

\* C17: for a non-empty text and a fixed font metric the number of wrapped
\* lines does not decrease when the rectangle gets narrower: of two calls
\* with widths w1 >= w2 the one with w1 yields at most as many lines.
C17_NarrowerNeverFewerLines ==
    \A k, n \in 1..Len(calls) :
        ( /\ job.text # <<>>
          /\ calls[k].area[3] - calls[k].area[1]
                >= calls[n].area[3] - calls[n].area[1] )
        => Len(calls[k].lines) <= Len(calls[n].lines)

\* the same text was wrapped at two widths, and the narrower rectangle took
\* more lines
C17_Witness ==
    /\ Len(calls) = 2
    /\ job.text # <<>>
    /\ calls[1].area[3] - calls[1].area[1] > calls[2].area[3] - calls[2].area[1]
    /\ Len(calls[1].lines) < Len(calls[2].lines)
    /\ Len(calls[1].lines) >= 2

\* C18: the x of every drawn line follows the alignment: left puts it at x0,
\* right at x1 minus the width of the line, center at
\* x0 + (rectangle width - line width) // 2 (a rectangle 1040 wide and a line
\* 600 wide give x0 + 220), and any other value is treated as center.
C18_LineOffsetByAlignment ==
    \A k \in 1..Len(calls) :
        LET c == calls[k]
            x0 == c.area[1]
            x1 == c.area[3]
        IN  \A n \in 1..Len(c.drawn) :
                LET d == c.drawn[n]
                    twice == 2 * (d.x - x0)
                IN  /\ job.align = "left" => d.x = x0
                    /\ job.align = "right" => d.x + d.w = x1
                    /\ job.align \notin {"left", "right"} =>
                          /\ twice <= (x1 - x0) - d.w
                          /\ (x1 - x0) - d.w <= twice + 1
                          /\ (x1 - x0 = 1040 /\ d.w = 600) => d.x = x0 + 220

\* a line 600 wide was drawn in the rectangle 1040 wide with an alignment
\* that is none of the three names
C18_Witness ==
    \E k \in 1..Len(calls) :
        /\ job.align = "zz"
        /\ calls[k].area[3] - calls[k].area[1] = 1040
        /\ \E n \in 1..Len(calls[k].drawn) : calls[k].drawn[n].w = 600

\* lines were drawn left-aligned, right-aligned and centred with an odd and
\* with a negative slack
C18_SlackWitness ==
    \E k \in 1..Len(calls) :
        /\ job.align = "center"
        /\ \E n \in 1..Len(calls[k].drawn) :
              calls[k].drawn[n].w > calls[k].area[3] - calls[k].area[1]
        /\ \E n \in 1..Len(calls[k].drawn) :
              (calls[k].area[3] - calls[k].area[1] - calls[k].drawn[n].w) % 2 = 1

\* the y at which the line after the drawn ones of call c would start
next_top(c) ==
    IF c.drawn = <<>> THEN c.area[2]
    ELSE LET d == c.drawn[Len(c.drawn)]
         IN  d.y + CHOOSE a \in 0..(2 * d.h) : 4 * a <= 5 * d.h /\ 5 * d.h < 4 * a + 4

\* C19: lines are drawn top-down from y0, each advancing y by
\* floor(1.25 * measured height of the line); a line is drawn only if its top
\* plus its height does not exceed y1, and from the first line that would
\* exceed y1 on nothing more is drawn: the drawn lines are a prefix of the
\* wrapped lines, and each lies vertically inside [y0, y1].
C19_DrawnPrefixInsideArea ==
    \A k \in 1..Len(calls) :
        LET c == calls[k]
            D == c.drawn
            L == c.lines
            y0 == c.area[2]
            y1 == c.area[4]
        IN  /\ Len(D) <= Len(L)
            /\ \A n \in 1..Len(D) :
                  /\ D[n].text = L[n]
                  /\ D[n].h = text_height(L[n], job.font)
                  /\ y0 <= D[n].y
                  /\ D[n].y + D[n].h <= y1
            /\ D # <<>> => D[1].y = y0
            /\ \A n \in 1..(Len(D) - 1) :
                  /\ 4 * (D[n + 1].y - D[n].y) <= 5 * D[n].h
                  /\ 5 * D[n].h < 4 * (D[n + 1].y - D[n].y) + 4
            /\ Len(D) < Len(L) =>
                  next_top(c) + text_height(L[Len(D) + 1], job.font) > y1

\* two lines were drawn, with an advance that is not a whole multiple of the
\* height, and the rest was dropped
C19_Witness ==
    \E k \in 1..Len(calls) :
        LET c == calls[k]
        IN  /\ Len(c.drawn) >= 2
            /\ Len(c.drawn) < Len(c.lines)
            /\ (5 * c.drawn[1].h) % 4 # 0

\* a line was dropped although a later, lower line would still have fitted
\* at the place where the drawing stopped
C19_DroppedLaterWitness ==
    \E k \in 1..Len(calls) :
        LET c == calls[k]
        IN  /\ c.drawn # <<>>
            /\ \E m \in (Len(c.drawn) + 2)..Len(c.lines) :
                  next_top(c) + text_height(c.lines[m], job.font) <= c.area[4]

\* C35: draw_wrapped of the legacy bot and _text_block of the package are
\* equivalent: for the same text, rectangle, font metric and alignment they
\* produce the same sequence of lines and the same drawn lines at the same
\* offsets.
C35_WrapImplementationsAgree ==
    \A k \in 1..Len(calls) :
        /\ calls[k].legacy.lines = calls[k].pkg.lines
        /\ calls[k].legacy.drawn = calls[k].pkg.drawn

\* a word wider than the rectangle came first and again later, which is where
\* the two loops are written differently; both gave the same lines, and the
\* same shorter list of drawn lines
C35_Witness ==
    \E k \in 1..Len(calls) :
        LET c == calls[k]
            max_w == c.area[3] - c.area[1]
        IN  /\ Len(c.legacy.lines) >= 3
            /\ c.legacy.lines = c.pkg.lines
            /\ textsize(c.legacy.lines[1], job.font)[1] > max_w
            /\ \E m \in 2..Len(c.legacy.lines) :
                  textsize(c.legacy.lines[m], job.font)[1] > max_w
            /\ c.legacy.drawn # <<>>
            /\ Len(c.legacy.drawn) < Len(c.legacy.lines)
            /\ c.legacy.drawn = c.pkg.drawn

\* a line that two words fill exactly, in both versions
C35_ExactFitWitness ==
    \E k \in 1..Len(calls) :
        LET c == calls[k]
        IN  \E m \in 1..Len(c.legacy.lines) :
               /\ Len(split(c.legacy.lines[m])) >= 2
               /\ textsize(c.legacy.lines[m], job.font)[1] = c.area[3] - c.area[1]
               /\ c.pkg.lines = c.legacy.lines

\* the words of a list of lines, read line by line
RECURSIVE words_of(_)
words_of(lines) ==
    IF lines = <<>> THEN <<>>
    ELSE split(Head(lines)) \o words_of(Tail(lines))

\* C38: the word-wrap loses, duplicates and reorders no word: the words of the
\* produced lines, read line by line, are the whitespace-split words of the
\* text in their order, every line holds at least one word, and an empty or
\* whitespace-only text produces no line.
C38_WrapKeepsEveryWord ==
    \A k \in 1..Len(calls) :
        LET L == calls[k].lines
        IN  /\ words_of(L) = split(job.text)
            /\ \A m \in 1..Len(L) : split(L[m]) # <<>>
            /\ (\A n \in 1..Len(job.text) : job.text[n] \in WHITESPACE) => L = <<>>

\* a text with a repeated word was wrapped into several lines, one of them
\* with more than one word
C38_Witness ==
    \E k \in 1..Len(calls) :
        LET L == calls[k].lines
            W == split(job.text)
        IN  /\ Len(L) >= 2
            /\ Len(L) < Len(W)
            /\ \E a, b \in 1..Len(W) : a # b /\ W[a] = W[b]
            /\ words_of(L) = W

\* a text with blanks around it and a run of blanks inside was wrapped into
\* several lines
C38_RunOfBlanksWitness ==
    \E k \in 1..Len(calls) :
        LET L == calls[k].lines
        IN  /\ Len(L) >= 2
            /\ job.text[1] \in WHITESPACE
            /\ job.text[Len(job.text)] \in WHITESPACE
            /\ \E n \in 1..(Len(job.text) - 1) :
                  job.text[n] \in WHITESPACE /\ job.text[n + 1] \in WHITESPACE
            /\ words_of(L) = split(job.text)

\* a text of blanks only was wrapped into no line
C38_BlankWitness ==
    \E k \in 1..Len(calls) :
        /\ job.text # <<>>
        /\ split(job.text) = <<>>
        /\ calls[k].lines = <<>>

-----------------------------------------------------------------------------
(* Properties of render_image, checked under SpecRender *)

\* what of a frame is layout and placement
geometry(frame) == [title |-> frame.title, subtitle |-> frame.subtitle,
                    body |-> frame.body, qr |-> frame.qr]

\* C20: layout and placement are deterministic: two renders of the same
\* record with nothing mutated in between, a preview and a final render
\* included, have the same line breaks, the same line offsets and the same
\* QR anchor and size.
C20_SameRecordSameGeometry ==
    \A k, n \in 1..Len(calls) :
        calls[k].p = calls[n].p =>
            geometry(calls[k].frame) = geometry(calls[n].frame)

\* a preview and a final render of one record, with a title of two lines
\* and a QR code
C20_Witness ==
    /\ Len(calls) = 2
    /\ calls[1].p = calls[2].p
    /\ calls[1].final # calls[2].final
    /\ calls[1].frame.out # calls[2].frame.out
    /\ Len(calls[1].frame.title) >= 2
    /\ calls[1].frame.body # <<>>
    /\ calls[1].frame.qr # None

\* two renders with a mutation in between differ in the offsets of the
\* lines
C20_MutatedWitness ==
    /\ Len(calls) = 2
    /\ calls[1].p # calls[2].p
    /\ calls[1].frame.title # calls[2].frame.title
    /\ calls[1].frame.qr # None

-----------------------------------------------------------------------------
(* Properties of get_font, checked under SpecFont *)

\* C21: the font is resolved by trying the candidates strictly in order (the
\* requested reference, then the system DejaVuSans.ttf, then the system
\* FreeSans.ttf); the first that loads is returned, the built-in face if
\* none loads; no call raises, whatever the reference, an empty one or one
\* to a missing file included.
C21_FirstCandidateThatLoads ==
    \A k \in 1..Len(calls) :
        LET c == calls[k]
            candidates == <<job.font_name, SYSTEM_DEJAVU, SYSTEM_FREESANS>>
            loads == { n \in 1..3 : candidates[n] \in DOMAIN job.host }
        IN  /\ c.font \notin {None, Raised}
            /\ loads = {} => c.font = load_default
            /\ \A n \in loads :
                  (\A m \in loads : n <= m)
                  => c.font = truetype(job.host[candidates[n]], c.size)

\* the requested file and DejaVuSans.ttf are missing, FreeSans.ttf is there
\* and was taken
C21_Witness ==
    \E k \in 1..Len(calls) :
        /\ job.font_name = "Missing.ttf"
        /\ DOMAIN job.host = {SYSTEM_FREESANS}
        /\ calls[k].font = truetype(RenderFamilies.free, calls[k].size)

\* an empty reference on a host without any of the files: the built-in face
C21_DefaultWitness ==
    \E k \in 1..Len(calls) :
        /\ job.font_name = ""
        /\ DOMAIN job.host = {}
        /\ calls[k].font = load_default

\* the requested file and both system files are there: the requested one
C21_RequestedWitness ==
    \E k \in 1..Len(calls) :
        /\ impl = "legacy"
        /\ job.font_name = DefaultFont
        /\ DOMAIN job.host = FontFiles
        /\ calls[k].font = truetype(RenderFamilies.own, calls[k].size)

\* the place of a step in the documented paint order
PaintRank(op) ==
    CASE op = "fill" -> 1
      [] op = "image" -> 2
      [] op = "title" -> 3
      [] op = "subtitle" -> 4
      [] op = "body" -> 5
      [] op = "qr" -> 6
      [] op = "save" -> 7

\* the stored artifacts of the project of SpecRender
Artifacts ==
    LET d == fs[uid]["a"]
    IN  (IF d.preview = NoFile THEN <<>> ELSE <<d.preview>>)
            \o (IF d.final = NoFile THEN <<>> ELSE <<d.final>>)

\* C22: every render paints in the fixed order background fill, background
\* image (if applicable), title, subtitle, body, QR code, and writes the
\* output file only after all of them; no step comes before an earlier one,
\* so in the image the QR code lies over the texts, the body over the
\* subtitle and the subtitle over the title.
C22_FixedPaintOrder ==
    /\ \A k \in 1..Len(calls) :
          LET ops == calls[k].run.ops
          IN  /\ \A m, n \in 1..Len(ops) :
                    m < n => PaintRank(ops[m].op) < PaintRank(ops[n].op)
              /\ ~calls[k].run.raised =>
                    /\ ops[1].op = "fill"
                    /\ ops[Len(ops)].op = "save"
                    /\ {"title", "subtitle", "body"}
                          \subseteq { ops[m].op : m \in 1..Len(ops) }
    /\ \A a \in 1..Len(Artifacts) :
          \A m, n \in 1..Len(Artifacts[a]) :
              m < n => PaintRank(Artifacts[a][m].op)
                          < PaintRank(Artifacts[a][n].op)

\* a render that made all seven steps
C22_Witness ==
    \E k \in 1..Len(calls) :
        /\ ~calls[k].run.raised
        /\ Len(calls[k].run.ops) = 7
        /\ calls[k].run.ops[2].op = "image"
        /\ calls[k].run.ops[6].op = "qr"
        /\ Artifacts # <<>>

\* a render whose QR code covers a part of a line of the body
C22_OverlapWitness ==
    \E k \in 1..Len(calls) :
        LET qr == calls[k].frame.qr
        IN  /\ ~calls[k].run.raised
            /\ qr # None
            /\ \E n \in 1..Len(calls[k].frame.body) :
                  LET d == calls[k].frame.body[n]
                  IN  /\ d.x < qr.pos[1] + qr.size /\ qr.pos[1] < d.x + d.w
                      /\ d.y < qr.pos[2] + qr.size /\ qr.pos[2] < d.y + d.h

\* the record is in image mode and its background cannot be used: it names
\* no file, the file is not there, or Pillow cannot read it
UnusableBackground(p) ==
    /\ p.bg_mode = "image"
    /\ \/ p.bg_image = NoPath
       \/ ~bg_exists(fs, p.bg_image)
       \/ job.env.bad_bg

\* C23: a render of a record in image mode whose background path is
\* missing, names no existing file or names a file that cannot be read does
\* not raise: it succeeds and its artifact has the flat bg_color fill as
\* background.
C23_UnusableBackgroundFallsBack ==
    \A k \in 1..Len(calls) :
        LET c == calls[k]
            slot == IF c.final THEN fs[uid]["a"].final ELSE fs[uid]["a"].preview
        IN  (UnusableBackground(c.p) /\ job.env.writable) =>
                /\ ~c.run.raised
                /\ c.run.ret = out_path(c.p, c.final)
                /\ c.run.ops[1] = [op |-> "fill", color |-> hex_to_rgb(c.p.bg_color)]
                /\ \A n \in 1..Len(c.run.ops) : c.run.ops[n].op # "image"
                /\ slot # NoFile
                /\ \A n \in 1..Len(slot) : slot[n].op # "image"

\* a render with a background file that is there and cannot be read
C23_Witness ==
    /\ calls # <<>>
    /\ job.env.bad_bg
    /\ calls[1].p.bg_image # NoPath
    /\ bg_exists(fs, calls[1].p.bg_image)
    /\ UnusableBackground(calls[1].p)
    /\ ~calls[1].run.raised

\* a render of a record that names a file that is not there
C23_MissingWitness ==
    /\ calls # <<>>
    /\ calls[1].p.bg_mode = "image"
    /\ calls[1].p.bg_image # NoPath
    /\ ~bg_exists(fs, calls[1].p.bg_image)
    /\ ~calls[1].run.raised

\* a render of a record in image mode that names no file
C23_NoPathWitness ==
    /\ calls # <<>>
    /\ calls[1].p.bg_mode = "image"
    /\ calls[1].p.bg_image = NoPath
    /\ ~calls[1].run.raised

\* the QR pastes of a run
QrPastes(run) == SelectSeq(run.ops, LAMBDA o : o.op = "qr")

\* C24: a render paints a QR code if and only if the record has qr_enabled
\* true and a non-empty qr_url; otherwise the image has no QR code, whatever
\* the position and size fields hold.
C24_QrIffEnabledAndUrl ==
    \A k \in 1..Len(calls) :
        LET c == calls[k]
            wanted == c.p.qr_enabled /\ c.p.qr_url # <<>>
        IN  /\ (c.frame.qr # None) <=> wanted
            /\ Len(QrPastes(c.run)) <= 1
            /\ QrPastes(c.run) # <<>> => wanted
            /\ (wanted /\ c.run.at_save) => QrPastes(c.run) # <<>>
            /\ ~c.run.raised =>
                  LET slot == IF c.final THEN fs[uid]["a"].final
                              ELSE fs[uid]["a"].preview
                  IN  (QrPastes([ops |-> slot]) # <<>>) <=> wanted

\* a render of a record with the QR code switched on and no URL
C24_Witness ==
    \E k \in 1..Len(calls) :
        /\ calls[k].p.qr_enabled
        /\ calls[k].p.qr_url = <<>>
        /\ ~calls[k].run.raised
        /\ QrPastes(calls[k].run) = <<>>

\* a render of a record with a URL and the QR code switched off
C24_OffWitness ==
    \E k \in 1..Len(calls) :
        /\ ~calls[k].p.qr_enabled
        /\ calls[k].p.qr_url # <<>>
        /\ ~calls[k].run.raised
        /\ QrPastes(calls[k].run) = <<>>

\* a render that painted the QR code
C24_PaintedWitness ==
    \E k \in 1..Len(calls) :
        /\ ~calls[k].run.raised
        /\ QrPastes(calls[k].run) # <<>>

\* C25: when the QR code is painted and qr_pos is none of tl, tr, bl, br,
\* c, the code is pasted at the bottom-right anchor
\* (W - MARGIN - size, H - MARGIN - size).
C25_UnknownPositionIsBottomRight ==
    \A k \in 1..Len(calls) :
        LET c == calls[k]
            q == QrPastes(c.run)
        IN  (q # <<>> /\ c.p.qr_pos \notin {"tl", "tr", "bl", "br", "c"}) =>
                /\ q[1].box.pos = << CANVAS[1] - MARGIN - q[1].box.size,
                                      CANVAS[2] - MARGIN - q[1].box.size >>
                /\ c.frame.qr = q[1].box

\* a render that painted the QR code of a record with qr_pos "zz"
C25_Witness ==
    \E k \in 1..Len(calls) :
        /\ calls[k].p.qr_pos = "zz"
        /\ ~calls[k].run.raised
        /\ QrPastes(calls[k].run) # <<>>
        /\ QrPastes(calls[k].run)[1].box.size = QR_MIN

\* C26: for every QR size the wizard can persist and each of the five
\* positions, the code is scaled to size x size and pasted at the anchor
\* computed from the canvas (1200 x 1500) and the margin (80): the corner
\* anchors leave exactly the margin to their two nearest edges, the centre
\* anchor is ((W - size) // 2, (H - size) // 2), and the whole square lies
\* inside the canvas.
C26_QrAnchors ==
    \A k \in 1..Len(calls) :
        LET c == calls[k]
            q == QrPastes(c.run)
            W == CANVAS[1]
            H == CANVAS[2]
        IN  (q # <<>> /\ c.p.qr_pos \in {"tl", "tr", "bl", "br", "c"}
                /\ c.p.qr_size \in QR_MIN..QR_MAX) =>
                LET size == q[1].box.size
                    x == q[1].box.pos[1]
                    y == q[1].box.pos[2]
                IN  /\ W = 1200 /\ H = 1500 /\ MARGIN = 80
                    /\ size = c.p.qr_size
                    /\ c.p.qr_pos \in {"tl", "bl"} => x = MARGIN
                    /\ c.p.qr_pos \in {"tr", "br"} => W - (x + size) = MARGIN
                    /\ c.p.qr_pos \in {"tl", "tr"} => y = MARGIN
                    /\ c.p.qr_pos \in {"bl", "br"} => H - (y + size) = MARGIN
                    /\ c.p.qr_pos = "c" =>
                          /\ x = (W - size) \div 2
                          /\ y = (H - size) \div 2
                          /\ (W - (x + size)) - x \in {0, 1}
                          /\ (H - (y + size)) - y \in {0, 1}
                    /\ 0 <= x /\ x + size <= W
                    /\ 0 <= y /\ y + size <= H

\* a render that pasted the largest QR code at the top-right anchor
C26_Witness ==
    \E k \in 1..Len(calls) :
        /\ calls[k].p.qr_pos = "tr"
        /\ calls[k].p.qr_size = QR_MAX
        /\ ~calls[k].run.raised
        /\ QrPastes(calls[k].run) # <<>>

\* a render that pasted a QR code of odd size at the centre
C26_CentreWitness ==
    \E k \in 1..Len(calls) :
        /\ calls[k].p.qr_pos = "c"
        /\ calls[k].p.qr_size % 2 = 1
        /\ ~calls[k].run.raised
        /\ QrPastes(calls[k].run) # <<>>

\* the artifact file of the given kind in the project directory
Slot(f, final) == IF final THEN f[uid]["a"].final ELSE f[uid]["a"].preview

\* C27: render(record, final) writes preview.jpg when final is false and
\* final.jpg when it is true, under <data-root>/<owner_id>/<project_id>/,
\* and returns that path; a later render of the same kind overwrites the
\* file, so a project has at most one artifact of each kind.
C27_OutputPathAndOverwrite ==
    \A k \in 1..Len(calls) :
        LET c == calls[k]
        IN  ~c.run.raised =>
                /\ c.run.ret = << c.p.user_id, c.p.id,
                                  IF c.final THEN "final.jpg" ELSE "preview.jpg" >>
                /\ c.run.ops[Len(c.run.ops)] = [op |-> "save", out |-> c.run.ret]
                /\ Len(SelectSeq(c.run.ops, LAMBDA o : o.op = "save")) = 1
                /\ (\A n \in (k + 1)..Len(calls) :
                        calls[n].final # c.final \/ calls[n].run.raised)
                      => Slot(fs, c.final) = image_of(c.run)

\* two renders of the same kind, the second of which replaced the image of
\* the first
C27_Witness ==
    /\ Len(calls) = 2
    /\ calls[1].final = calls[2].final
    /\ ~calls[1].run.raised /\ ~calls[2].run.raised
    /\ image_of(calls[1].run) # image_of(calls[2].run)
    /\ Slot(fs, calls[2].final) = image_of(calls[2].run)

\* a preview and a final render of one project, each in its own file
C27_BothKindsWitness ==
    /\ Len(calls) = 2
    /\ ~calls[1].final /\ calls[2].final
    /\ calls[1].run.ret[3] = "preview.jpg"
    /\ calls[2].run.ret[3] = "final.jpg"
    /\ Slot(fs, FALSE) = image_of(calls[1].run)
    /\ Slot(fs, TRUE) = image_of(calls[2].run)

\* the step is a call of render_image
IsRenderStep == calls' # calls \/ (Len(calls') = 2 /\ Len(calls) = 2 /\ job' = job)

\* C28: a render has no effect beyond writing its one output file: the
\* record it was given, the stored metadata file, the uploaded background
\* file and the artifact of the other kind are unchanged, and no other file
\* or directory is created.
C28_RenderWritesOneFile ==
    [][ IsRenderStep =>
          LET c == calls'[Len(calls')]
          IN  /\ job' = job
              /\ c.p = job.p
              /\ \A u \in Owners : \A i \in Ids :
                    /\ fs'[u][i].exists = fs[u][i].exists
                    /\ fs'[u][i].meta = fs[u][i].meta
                    /\ fs'[u][i].bg = fs[u][i].bg
                    /\ (u # uid \/ i # "a") => fs'[u][i] = fs[u][i]
              /\ Slot(fs', ~c.final) = Slot(fs, ~c.final)
              /\ c.run.raised => fs' = fs
              /\ load_project(fs', uid, "a") = load_project(fs, uid, "a") ]_vars

\* a render next to an uploaded background and the artifact of the other
\* kind, which is still there
C28_Witness ==
    /\ Len(calls) = 2
    /\ calls[1].final # calls[2].final
    /\ ~calls[1].run.raised /\ ~calls[2].run.raised
    /\ fs[uid]["a"].bg
    /\ Slot(fs, calls[1].final) = image_of(calls[1].run)
    /\ load_project(fs, uid, "a") = calls[2].p

\* C29: when the output location cannot be written, the render fails with
\* an error that propagates to its caller, without returning a path; and
\* that is the only way a render of any record fails.
C29_FailsOnlyWhenUnwritable ==
    \A k \in 1..Len(calls) :
        /\ ~job.env.writable =>
              calls[k].run.raised /\ calls[k].run.ret = None
        /\ calls[k].run.raised => ~job.env.writable

\* the first half of C29 alone: an output location that cannot be written
\* makes the render raise, no path is returned and no artifact is written
C29_UnwritableRaises ==
    \A k \in 1..Len(calls) :
        ~job.env.writable =>
            /\ calls[k].run.raised
            /\ calls[k].run.ret = None
            /\ calls[k].run.at_save
            /\ Slot(fs, calls[k].final) = NoFile

\* the package fails in no other way
C29_PackageFailsOnlyWhenUnwritable ==
    impl = "pkg" =>
        \A k \in 1..Len(calls) : calls[k].run.raised <=> ~job.env.writable

\* a render that failed at the save
C29_UnwritableWitness ==
    /\ calls # <<>>
    /\ ~job.env.writable
    /\ calls[1].run.raised
    /\ calls[1].run.at_save

\* a render that failed before the save, on a writable directory
C29_ColourWitness ==
    /\ calls # <<>>
    /\ job.env.writable
    /\ calls[1].run.raised
    /\ ~calls[1].run.at_save
    /\ impl = "legacy"

-----------------------------------------------------------------------------
(* Properties of render_async, checked under SpecAsync *)

C30_InFlightWitness ==
    /\ job.flight # None
    /\ load_project(fs, uid, "a") \notin {None, Raised}
    /\ load_project(fs, uid, "a").qr_enabled # job.flight.p.qr_enabled

-----------------------------------------------------------------------------
(* Properties of the colour parsing, checked under SpecColour *)

\* the digits of a colour text: blanks around it and one leading '#' put aside
ColourDigits(t) ==
    LET u == strip(t)
    IN  IF u # <<>> /\ Head(u) = "#" THEN Tail(u) ELSE u

\* a 3- or 6-digit hex colour, with or without '#'
ValidColour(t) ==
    /\ Len(ColourDigits(t)) \in {3, 6}
    /\ \A k \in 1..Len(ColourDigits(t)) : ColourDigits(t)[k] \in HEXDIGITS

\* the triple a valid colour stands for
ColourValue(t) ==
    LET d == ColourDigits(t)
    IN  IF Len(d) = 3
        THEN << 17 * hex_value(d[1]), 17 * hex_value(d[2]), 17 * hex_value(d[3]) >>
        ELSE << 16 * hex_value(d[1]) + hex_value(d[2]),
                16 * hex_value(d[3]) + hex_value(d[4]),
                16 * hex_value(d[5]) + hex_value(d[6]) >>

\* C36: colour parsing never makes a render fail: for every stored text the
\* conversion returns three integers in 0..255 without raising; a 3-digit
\* value is expanded by doubling each digit, and a text that is not a valid
\* 3- or 6-digit hex colour yields white.
C36_ColourParsingTotal ==
    \A k \in 1..Len(calls) :
        LET c == calls[k]
        IN  /\ ~c.raised
            /\ Len(c.rgb) = 3
            /\ \A n \in 1..3 : c.rgb[n] \in 0..255
            /\ ValidColour(c.text) => c.rgb = ColourValue(c.text)
            /\ ~ValidColour(c.text) => c.rgb = WHITE

\* C36, the part that holds in both bots: a valid 3- or 6-digit colour, with
\* or without '#' and with blanks around it, is parsed without raising into
\* three integers in 0..255, a 3-digit one with each digit doubled.
C36_ValidColourParses ==
    \A k \in 1..Len(calls) :
        LET c == calls[k]
        IN  ValidColour(c.text) =>
               /\ ~c.raised
               /\ c.rgb = ColourValue(c.text)
               /\ \A n \in 1..3 : c.rgb[n] \in 0..255

\* C36, the part that holds in the package: _hex_to_rgb never raises.
C36_PackageNeverRaises ==
    \A k \in 1..Len(calls) : impl = "pkg" => ~calls[k].raised

\* C36, the part that holds in the legacy bot: a text that is not three or
\* six characters long after strip() and lstrip('#') yields white.
C36_LegacyWrongLengthIsWhite ==
    \A k \in 1..Len(calls) :
        LET c == calls[k]
        IN  impl = "legacy" /\ Len(lstrip_hash(strip(c.text))) \notin {3, 6} =>
               ~c.raised /\ c.rgb = WHITE

\* a 3-digit colour with '#' was doubled into a colour that is not white
C36_Witness ==
    /\ calls # <<>>
    /\ calls[1].text = <<"#", "f", "1", "f">>
    /\ calls[1].rgb = <<255, 17, 255>>

\* the legacy bot raised on six characters that are not hex digits
C36_LegacyRaisesWitness ==
    /\ impl = "legacy"
    /\ calls # <<>>
    /\ calls[1].text = <<"#", "z", "z", "z", "z", "z", "z">>
    /\ calls[1].raised

\* the package made a colour other than white of five digits
C36_PackageFiveDigitsWitness ==
    /\ impl = "pkg"
    /\ calls # <<>>
    /\ calls[1].text = <<"1", "1", "1", "1", "1">>
    /\ ~calls[1].raised
    /\ calls[1].rgb = <<17, 17, 1>>

-----------------------------------------------------------------------------
(* Properties of the message handlers, checked under Spec *)

\* the stored record of the session's current project
Current(f, pids) == load_project(f, uid, pids[uid])

\* C31: a photo sent while the wizard is in the background step with a
\* current project and a size within the upload limit is stored as bg.jpg in
\* the project directory, the record is persisted with bg_mode = "image" and
\* bg_image = the path of that file, and the conversation stays in SET_BG.
C31_PhotoBecomesBackground ==
    [][ \A size \in PhotoSizes :
          (size <= UploadLimit /\ HasProject(uid) /\ photo(uid, size)) =>
              /\ fs'[uid][pid[uid]].bg
              /\ Current(fs', pid') \notin {None, Raised}
              /\ Current(fs', pid').bg_mode = "image"
              /\ Current(fs', pid').bg_image = BgPath(uid, pid[uid])
              /\ state'[uid] = SET_BG ]_vars

\* C31 for the package alone
C31_PackagePhotoBecomesBackground ==
    [][ \A size \in PhotoSizes :
          (impl = "pkg" /\ size <= UploadLimit /\ HasProject(uid)
              /\ photo(uid, size)) =>
              /\ fs'[uid][pid[uid]].bg
              /\ Current(fs', pid') \notin {None, Raised}
              /\ Current(fs', pid').bg_mode = "image"
              /\ Current(fs', pid').bg_image = BgPath(uid, pid[uid])
              /\ state'[uid] = SET_BG ]_vars

\* the package has stored a photo as the background of the current project
C31_PackageWitness ==
    /\ impl = "pkg"
    /\ state[uid] = SET_BG
    /\ pid[uid] # NoPid
    /\ fs[uid][pid[uid]].bg
    /\ mem[uid] # None
    /\ mem[uid].bg_image = BgPath(uid, pid[uid])
    /\ outcome = Result(uid, "ok")

\* the legacy bot has sent a photo away at the background step
C31_LegacyWitness ==
    /\ impl = "legacy"
    /\ outcome = Result(uid, "wrongstep")
    /\ state[uid] = MENU
    /\ pid[uid] # NoPid
    /\ ~fs[uid][pid[uid]].bg

\* no bg.jpg was written or replaced and no stored record changed
NothingStored ==
    \A u \in Owners : \A i \in Ids :
        /\ fs'[u][i].bg = fs[u][i].bg
        /\ fs'[u][i].meta = fs[u][i].meta
        /\ fs'[u][i].mtime = fs[u][i].mtime

\* C32: a photo whose size exceeds MAX_UPLOAD_MB megabytes is rejected: no
\* bg.jpg is written or replaced, the persisted record is unchanged in every
\* field, and the conversation stays in SET_BG.
C32_OversizedPhotoRejected ==
    [][ \A size \in PhotoSizes :
          (size > UploadLimit /\ HasProject(uid) /\ photo(uid, size)) =>
              /\ NothingStored
              /\ state'[uid] = SET_BG ]_vars

\* the part of C32 that holds for both bots: nothing is stored
C32_OversizedPhotoStoresNothing ==
    [][ \A size \in PhotoSizes :
          (size > UploadLimit /\ HasProject(uid) /\ photo(uid, size)) =>
              NothingStored ]_vars

\* C32 for the package alone
C32_PackageOversizedPhotoRejected ==
    [][ \A size \in PhotoSizes :
          (impl = "pkg" /\ size > UploadLimit /\ HasProject(uid)
              /\ photo(uid, size)) =>
              /\ NothingStored
              /\ state'[uid] = SET_BG
              /\ outcome' = Result(uid, "toolarge") ]_vars

\* the package has refused a photo for its size
C32_PackageWitness ==
    /\ impl = "pkg"
    /\ outcome = Result(uid, "toolarge")
    /\ state[uid] = SET_BG
    /\ HasProject(uid)

\* the title step: the stripped text is stored as title, and the subtitle
\* step is next
TitleStepDone ==
    /\ Current(fs', pid') \notin {None, Raised}
    /\ \E text \in Texts :
          Current(fs', pid') = [Current(fs, pid) EXCEPT !.title = strip(text),
                                                        !.updated_at = now]
    /\ state'[uid] = SET_SUBTITLE

\* the subtitle step: the stripped text, or nothing for "-", is stored as
\* subtitle, and the body step is next
SubtitleStepDone ==
    /\ Current(fs', pid') \notin {None, Raised}
    /\ \E text \in Texts :
          Current(fs', pid') =
              [Current(fs, pid) EXCEPT
                  !.subtitle = IF strip(text) = <<"-">> THEN <<>> ELSE strip(text),
                  !.updated_at = now]
    /\ state'[uid] = SET_BODY

\* the body step, as far as the record goes: the stripped text is stored as
\* body
BodyStored ==
    /\ Current(fs', pid') \notin {None, Raised}
    /\ \E text \in Texts :
          Current(fs', pid') = [Current(fs, pid) EXCEPT !.body = strip(text),
                                                        !.updated_at = now]

\* C34: the text steps are ordered: with a current project, a text in
\* SET_TITLE is stored (stripped) as title and the conversation moves to
\* SET_SUBTITLE; the next text is stored as subtitle ("-" stores an empty
\* subtitle) and the conversation moves to SET_BODY; the next text is stored
\* as body, a preview is rendered, and the conversation moves to PREVIEW.
\* Text messages alone never reach PREVIEW from SET_TITLE in fewer than
\* three steps.
C34_TextStepsInOrder ==
    [][ HasProject(uid) =>
          /\ set_title(uid) => TitleStepDone
          /\ set_subtitle(uid) => SubtitleStepDone
          /\ set_body(uid) =>
                /\ BodyStored
                /\ HasArtifact(fs', uid, pid[uid], FALSE)
                /\ state'[uid] = PREVIEW
          /\ (state[uid] \in {SET_TITLE, SET_SUBTITLE} /\ state'[uid] = PREVIEW)
                => ~(set_title(uid) \/ set_subtitle(uid)) ]_vars

\* what holds of C34: the title and the subtitle step, the stored body, and
\* no text step before the third that ends in PREVIEW
C34_TextStepsStore ==
    [][ HasProject(uid) =>
          /\ set_title(uid) => TitleStepDone
          /\ set_subtitle(uid) => SubtitleStepDone
          /\ set_body(uid) => BodyStored
          /\ (set_title(uid) \/ set_subtitle(uid)) => state'[uid] # PREVIEW ]_vars

\* the three text steps were taken: title, subtitle and body are stored, and
\* the body step has raised in its render
C34_Witness ==
    /\ state[uid] = SET_BODY
    /\ outcome = Result(uid, "raised")
    /\ HasProject(uid)
    /\ Current(fs, pid).title = <<"b">>
    /\ Current(fs, pid).subtitle = <<>>
    /\ Current(fs, pid).body = <<"a">>
    /\ ~HasArtifact(fs, uid, pid[uid], FALSE)

\* the step left every field of the persisted record of the current project
\* as it was, but for those of T and updated_at, and the record is still there
FrameKept(T) ==
    HasProject(uid) =>
        /\ Current(fs', pid') \notin {None, Raised}
        /\ \A f \in Fields \ (T \cup {"updated_at"}) :
              Current(fs', pid')[f] = Current(fs, pid)[f]

\* C37: each wizard mutation changes only its targeted field(s) of the
\* persisted record plus updated_at and leaves every other field as it was:
\* tpl changes template, bgcolor bg_color, bg bg_mode (and clears bg_image when
\* the mode is color), align align, fcolor font_color, qr qr_enabled, qrpos
\* qr_pos, qrsize qr_size, the text steps title, subtitle or body, and an
\* accepted URL changes qr_url and sets qr_enabled.
C37_MutationsKeepOtherFields ==
    [][ /\ cb_tpl(uid) => FrameKept({"template"})
        /\ cb_bgcolor(uid) => FrameKept({"bg_color"})
        /\ cb_bg(uid) =>
              /\ FrameKept({"bg_mode", "bg_image"})
              /\ HasProject(uid) =>
                    \/ Current(fs', pid').bg_image = Current(fs, pid).bg_image
                    \/ /\ Current(fs', pid').bg_mode = "color"
                       /\ Current(fs', pid').bg_image = NoPath
        /\ cb_align(uid) => FrameKept({"align"})
        /\ cb_fcolor(uid) => FrameKept({"font_color"})
        /\ cb_qr(uid) => FrameKept({"qr_enabled"})
        /\ cb_qrpos(uid) => FrameKept({"qr_pos"})
        /\ cb_qrsize(uid) => FrameKept({"qr_size"})
        /\ set_title(uid) => FrameKept({"title"})
        /\ set_subtitle(uid) => FrameKept({"subtitle"})
        /\ set_body(uid) => FrameKept({"body"})
        /\ set_qr_text(uid) =>
              /\ FrameKept({"qr_url", "qr_enabled"})
              /\ HasProject(uid) =>
                    \/ /\ Current(fs', pid').qr_url = Current(fs, pid).qr_url
                       /\ Current(fs', pid').qr_enabled = Current(fs, pid).qr_enabled
                    \/ Current(fs', pid').qr_enabled ]_vars

\* a record that several mutations have gone over: the template, the
\* background colour and the title differ from the defaults, and the title
\* was saved last
C37_Witness ==
    /\ HasProject(uid)
    /\ Current(fs, pid).template = "minimal"
    /\ Current(fs, pid).bg_color = "#fff7e6"
    /\ Current(fs, pid).title # <<>>
    /\ Current(fs, pid).updated_at >= 4
    /\ state[uid] = SET_SUBTITLE

\* an accepted URL was stored and the QR code is on, after the background
\* had been changed
C37_UrlWitness ==
    /\ HasProject(uid)
    /\ Current(fs, pid).qr_enabled
    /\ url_accepted(Current(fs, pid).qr_url)
    /\ Current(fs, pid).qr_url # project_defaults(uid, pid[uid], 1).qr_url
    /\ Current(fs, pid).bg_color = "#fff7e6"

\* C39: in every reachable state where the conversation is in PREVIEW, a
\* current project is set and a preview.jpg or final.jpg exists in its
\* directory. It holds, but only because no reachable state is in PREVIEW
\* (C39_PreviewNeverEntered): the three branches that return PREVIEW do so
\* after an awaited render_async, and that call raises.
C39_PreviewHasRenderedProject ==
    state[uid] = PREVIEW =>
        /\ HasProject(uid)
        /\ \/ HasArtifact(fs, uid, pid[uid], FALSE)
           \/ HasArtifact(fs, uid, pid[uid], TRUE)

\* C39, what the handlers do instead: the conversation is never in PREVIEW,
\* and no preview.jpg or final.jpg is ever written.
C39_PreviewNeverEntered ==
    /\ state[uid] # PREVIEW
    /\ \A i \in Ids : ~HasArtifact(fs, uid, i, FALSE) /\ ~HasArtifact(fs, uid, i, TRUE)

\* a preview was asked for from the keyboard with a project at hand, the
\* render raised, and the conversation stayed where it was
C39_RaisedWitness ==
    /\ state[uid] = SET_STYLE
    /\ outcome = Result(uid, "raised")
    /\ HasProject(uid)
    /\ impl = "legacy"

-----------------------------------------------------------------------------
(* Properties of the handlers in any session, checked under SpecSession *)

\* a step of a handler that needs the current project
NeedsProject(u) ==
    \/ cb_tpl(u) \/ cb_bg(u) \/ cb_bgcolor(u) \/ cb_align(u) \/ cb_fcolor(u)
    \/ cb_qr(u) \/ cb_qrpos(u) \/ cb_qrsize(u)
    \/ go_to(u, "SET_QR") \/ go_to(u, "PREVIEW") \/ cb_save(u)
    \/ set_title(u) \/ set_subtitle(u) \/ set_body(u) \/ set_qr_text(u)
    \/ on_photo(u)

\* the handler reported the missing project and went back to the menu: it
\* did not raise, saved no record and wrote no artifact
ReportedNoProject ==
    /\ outcome' = Result(uid, "noproject")
    /\ state'[uid] = MENU
    /\ \A u \in Owners : \A i \in Ids :
          /\ fs'[u][i].meta = fs[u][i].meta
          /\ fs'[u][i].bg = fs[u][i].bg
          /\ fs'[u][i].preview = fs[u][i].preview
          /\ fs'[u][i].final = fs[u][i].final
    /\ pid' = pid

\* C33: whenever a wizard handler that needs a project is invoked with no
\* usable current project (no project id in the session, no stored record
\* for it, or a stored record that is malformed), it reports this to the
\* user and returns the conversation to MENU, without raising, without
\* saving any record and without rendering.
C33_NoProjectGoesToMenu ==
    [][ (~HasProject(uid) /\ NeedsProject(uid)) => ReportedNoProject ]_vars

\* C33 without the malformed record: no project id, or no stored record
C33_AbsentProjectGoesToMenu ==
    [][ (get_current_project(uid) = None /\ NeedsProject(uid))
            => ReportedNoProject ]_vars

\* C33 for the package alone
C33_PackageNoProjectGoesToMenu ==
    [][ (impl = "pkg" /\ ~HasProject(uid) /\ NeedsProject(uid))
            => ReportedNoProject ]_vars

\* a handler found a project id and no record for it
C33_AbsentWitness ==
    /\ outcome = Result(uid, "noproject")
    /\ state[uid] = MENU
    /\ pid[uid] = "a"
    /\ fs[uid]["a"].meta = Absent

\* the package found a record that cannot be parsed
C33_PackageMalformedWitness ==
    /\ impl = "pkg"
    /\ outcome = Result(uid, "noproject")
    /\ state[uid] = MENU
    /\ pid[uid] = "a"
    /\ fs[uid]["a"].meta = Partial

\* the legacy bot raised on a record that cannot be parsed
C33_LegacyMalformedWitness ==
    /\ impl = "legacy"
    /\ outcome = Result(uid, "raised")
    /\ pid[uid] = "a"
    /\ fs[uid]["a"].meta = Partial

====
